---- MODULE Spec2Model ----
(***************************************************************************)
(* Morbidostat hardware interface (scripts/interface.py), the IOPi digital *)
(* output driver it drives the pumps with (scripts/hardware_libraries.py)  *)
(* and the Morbidostat control loop built on it (scripts/morbidostat.py).  *)
(*                                                                         *)
(* The main thread's position in the Interface code is pc, the arguments   *)
(* and loop variables of the Interface call in progress are call.  Volumes *)
(* are in nanolitres, pump rates in nanolitres per clock tick and optical  *)
(* densities in thousandths, so that every quantity is a whole number.     *)
(***************************************************************************)
EXTENDS Integers, Sequences, FiniteSets, TLC

VARIABLES
    pc,                    \* position of the main thread in the Interface code
    call,                  \* arguments and locals of the Interface call in progress
    muxsel,                \* channel-select byte of each multiplexer (0x70, 0x71)
    ad7150,                \* setup registers of the capacitance chip behind each mux channel
    iobus,                 \* GPIOA / GPIOB registers of the four IOPi expanders
    lights,                \* RPi pin 21
    waste_pump,            \* RPi pin 20
    waste_pump_direction,  \* RPi pin 16
    asynctasks,            \* Interface.asynctasks, the pending activations
    clock,                 \* event-loop time since execute_pumping started the loop
    m,                     \* the Morbidostat operation in progress: what is left to do
    lookup,                \* a call of Morbidostat.get_pump_number and what it gave
    adc,                   \* an ADCPi object, its two chips and the read in progress
    iopi                   \* an IOPi object and the registers of its chip

\* the objects of the hardware libraries and of the lookup, checked on their own
libvars == <<lookup, adc, iopi>>

vars == <<pc, call, muxsel, ad7150, iobus, lights, waste_pump, waste_pump_direction,
          asynctasks, clock, m, libvars>>

----------------------------------------------------------------------------
(* Bounds of the model.                                                     *)

\* largest nb_measures a level measurement is called with
MaxMeasures == 2
\* most activations pending at once
MaxTasks == 2
\* largest duration (ticks) run_pump and run_waste_pump are called with
MaxDt == 2
\* largest volume (microlitres) inject_volume and remove_waste are called with
MaxVol == 2
\* no Morbidostat method is started once a dataframe has recorded this many rows
MaxRows == 4
\* largest tot_time (units of 100 seconds) run is called with
MaxTime == 11
\* largest tot_time run is called with where every statement is executed in its turn
MaxShortTime == 3
\* most calls of set_pumps on one Morbidostat, the call of __init__ included
MaxSetPumps == 2
\* most rows of the OD savefile that top_low_cultures reads
MaxFileRows == 5
MaxPolls == 2

----------------------------------------------------------------------------
(* Small helpers.                                                           *)

Min(a, b) == IF a <= b THEN a ELSE b
Max(a, b) == IF a >= b THEN a ELSE b

RECURSIVE Pow2(_)
Pow2(n) == IF n = 0 THEN 1 ELSE 2 * Pow2(n - 1)

Range(s) == {s[i] : i \in DOMAIN s}

SetMax(S) == CHOOSE x \in S : \A y \in S : y <= x

SetMin(S) == CHOOSE x \in S : \A y \in S : x <= y

----------------------------------------------------------------------------
(* The physical tables of Interface.set_hardware_connections.               *)

\* self.muxs = [0x70, 0x71], as indices into the list
muxs == 1..2

\* self.vials = list(range(1, 16))
NbVials == 15
vials == 1..NbVials

\* self.pumps: pump ii sits on IOPi 1, pin ii, for ii in 1..15
NbPumps == 15
\* a registry that wires the pumps to the eight pins of port A alone
pumps_one_port == [p \in 1..NbPumps |-> [IOPi |-> 1, pin |-> ((p - 1) % 8) + 1]]

pumps == [p \in 1..NbPumps |-> [IOPi |-> 1, pin |-> p]]

\* self.ODs: vials 1..8 on the pins 1..8 of the first ADCPi, vials 9..15 on the pins
\* 1..7 of the second
ODs == [ii \in 1..8 |-> [ADCPi |-> 1, pin |-> ii]] \o [ii \in 1..7 |-> [ADCPi |-> 2, pin |-> ii]]

\* self.iobuses: four expanders, 0x20..0x23
NbIOPi == 4

\* self.LS: vials 1..7 on mux 2 channels 7..1, vials 8..15 on mux 1 channels 8..1
LS == [v \in vials |-> IF v <= 7 THEN [mux |-> 2, channel |-> 8 - v]
                                 ELSE [mux |-> 1, channel |-> 9 - (v - 7)]]

\* values written by setup_capacitance_sensor
CH1_SETUP_VALUE == 195
CONFIGURATION_VALUE == 49

available_pumps == 1..Len(pumps)

pump_to_pin(pump) == <<pumps[pump].IOPi, pumps[pump].pin>>

OD_to_pin(vial_number) == <<ODs[vial_number].ADCPi, ODs[vial_number].pin>>

\* a lookup that counts the channels from the other end
LS_to_mux_reversed(vial_number) == <<LS[vial_number].mux, 9 - LS[vial_number].channel>>

LS_to_mux(vial_number) == <<LS[vial_number].mux, LS[vial_number].channel>>

----------------------------------------------------------------------------
(* IOPi: one bit of an 8-bit register.                                      *)

checkbit(byte, bit) == IF (byte \div Pow2(bit)) % 2 = 1 THEN 1 ELSE 0

\* a write that drops the other bits of the register
updatebyte_overwrite(byte, bit, value) == IF value = 0 THEN 0 ELSE Pow2(bit)

\* byte & ~(1 << bit) when value is 0, byte | (1 << bit) when value is 1
updatebyte(byte, bit, value) ==
    IF value = 0 THEN byte - checkbit(byte, bit) * Pow2(bit)
                 ELSE byte + (1 - checkbit(byte, bit)) * Pow2(bit)

\* a __set_pin that takes pin 9 for bit 1 of port B
set_pin_shifted(regs, pin, value) ==
    IF pin >= 1 /\ pin <= 8
    THEN [regs EXCEPT !.A = updatebyte(regs.A, pin - 1, value)]
    ELSE [regs EXCEPT !.B = updatebyte(regs.B, pin - 8, value)]

\* __set_pin on the GPIOA / GPIOB pair of one expander: read the register,
\* change one bit, write it back
set_pin(regs, pin, value) ==
    IF pin >= 1 /\ pin <= 8
    THEN [regs EXCEPT !.A = updatebyte(regs.A, pin - 1, value)]
    ELSE [regs EXCEPT !.B = updatebyte(regs.B, pin - 9, value)]

write_pin(bus, n, pin, value) == [bus EXCEPT ![n] = set_pin(bus[n], pin, value)]

get_pin(regs, pin) ==
    IF pin >= 1 /\ pin <= 8 THEN checkbit(regs.A, pin - 1)
                            ELSE checkbit(regs.B, pin - 9)

\* the level of a pump's pin
PumpPin(bus, pump) == get_pin(bus[pump_to_pin(pump)[1]], pump_to_pin(pump)[2])

\* Interface.turn_off: every pump pin, the light, the waste pump and its direction low
turn_off_pumps(bus) ==
    LET RECURSIVE off(_, _)
        off(b, p) == IF p > Len(pumps) THEN b
                     ELSE off(write_pin(b, pump_to_pin(p)[1], pump_to_pin(p)[2], 0), p + 1)
    IN off(bus, 1)

----------------------------------------------------------------------------
(* The call frame.                                                          *)

NoCall == [op |-> "none", vial |-> 0, pump |-> 0, volume |-> 0, max_volume |-> 0,
           dt |-> 0, run |-> FALSE, reversed |-> FALSE, nb_measures |-> 0,
           mux |-> 0, channel |-> 0, ii |-> 0, reg |-> 0,
           averaged |-> FALSE, data |-> <<>>, capacitance |-> 0]

\* a savefile of the run directory: absent until the first to_csv creates it
NoFile == [exists |-> FALSE, header |-> 0, rows |-> <<>>]

\* the Morbidostat object and the frame of its method in progress: the operation,
\* the Interface calls it has still to make, the list volumes_added of
\* maintain_cultures, the current_OD of maintain_culture, the list of values that
\* record_ODs / record_volumes is filling, the two dataframes and their savefiles,
\* the number of rows recorded in each dataframe since construction and when the
\* method in progress (for run: its cycle in progress) was entered, the loop
\* counter ii of run and the experiment time
NoOperation ==
    [op |-> "none", todo |-> <<>>, volumes |-> <<>>, current_OD |-> 0,
     row |-> <<>>, ODs |-> <<>>, levels |-> <<>>,
     OD_savefile |-> NoFile, volumes_savefile |-> NoFile,
     recorded |-> [ODs |-> 0, levels |-> 0], entry |-> [ODs |-> 0, levels |-> 0],
     ii |-> 0, time |-> 0]

\* Morbidostat.set_pumps: the pumps of the experiment
create_pump(number, input_type, input_number, output_type, output_number) ==
    [number |-> number, input |-> <<input_type, input_number>>,
     output |-> <<output_type, output_number>>]

morbidostat_pumps ==
    << create_pump(1, "media", 1, "culture", 1),
       create_pump(2, "media", 1, "culture", 2),
       create_pump(3, "media", 1, "culture", 3),
       create_pump(4, "culture", 1, "phage vial", 1),
       create_pump(5, "culture", 1, "phage vial", 2),
       create_pump(6, "culture", 1, "phage vial", 3),
       create_pump(9, "culture", 2, "phage vial", 4),
       create_pump(10, "culture", 2, "phage vial", 5),
       create_pump(11, "culture", 2, "phage vial", 6),
       create_pump(13, "culture", 3, "phage vial", 7),
       create_pump(14, "culture", 3, "phage vial", 8),
       create_pump(15, "culture", 3, "phage vial", 9) >>

\* the state after Morbidostat.__init__: set_pumps has filled self.pumps once, and
\* get_pump_number was not called
NoLookup ==
    [op |-> "none", pumps |-> morbidostat_pumps, input |-> <<"", 0>>, output |-> <<"", 0>>,
     raised |-> FALSE, number |-> 0]

\* an ADCPi before its constructor has run: the class attributes.  Times are in
\* units of 10 microseconds, lsb in units of 1/128 microvolt, pga in halves.
NoADC ==
    [adc1_address |-> 104, adc2_address |-> 105,
     adc1_conf |-> 156, adc2_conf |-> 156,
     adc1_channel |-> 1, adc2_channel |-> 1,
     bitrate |-> 18, conversionmode |-> 1, pga |-> 1, lsb |-> 1000, signbit |-> FALSE,
     op |-> "none", arg |-> 0, at |-> "none", error |-> "", written |-> <<>>,
     config |-> 0, address |-> 0, start |-> 0, time |-> 0, timeout_time |-> 0, polls |-> 0,
     adcreading |-> <<0, 0, 0, 0>>, raw |-> 0, voltage |-> 0]

\* an MCP23017 at power-on (every pin an input, the ports low) and no IOPi object
\* constructed for it yet.  gpio and iodir are the register pairs GPIOA/GPIOB and
\* IODIRA/IODIRB; a register is read as it was last written.
NoIOPi ==
    [constructed |-> FALSE, ioaddress |-> 32, address |-> 0,
     gpio |-> [A |-> 0, B |-> 0], iodir |-> [A |-> 255, B |-> 255],
     op |-> "none", pin |-> 0, value |-> 0, at |-> "none", error |-> "", written |-> <<>>,
     result |-> 0]

----------------------------------------------------------------------------
(* Initial state: Interface.__init__ has reached the configuration of the   *)
(* capacitance sensors (interface.py line 125).  The light, the waste pump  *)
(* and its direction have just been set low (lines 102-107).  The           *)
(* multiplexers and the expander's output latches keep what the previous    *)
(* run of the program left in them: nothing, or the channel of the last     *)
(* vial measured, and pumps that were running.                              *)

LeftoverMux ==
    {[i \in muxs |-> 0]} \cup
    {[i \in muxs |-> IF i = LS[v].mux THEN Pow2(LS[v].channel - 1) ELSE 0] : v \in vials}

LeftoverPorts == {[A |-> 0, B |-> 0], [A |-> 3, B |-> 1]}

Init ==
    /\ pc = "ctor_reset"
    /\ call = [NoCall EXCEPT !.op = "__init__", !.mux = 1]
    /\ muxsel \in LeftoverMux
    /\ ad7150 = [s \in muxs \X (1..8) |-> [setup |-> 0, conf |-> 0]]
    /\ \E left \in LeftoverPorts :
          iobus = [n \in 1..NbIOPi |-> IF n = 1 THEN left ELSE [A |-> 0, B |-> 0]]
    /\ lights = 0
    /\ waste_pump = 0
    /\ waste_pump_direction = 0
    /\ asynctasks = <<>>
    /\ clock = 0
    /\ m = NoOperation
    /\ lookup = NoLookup
    /\ adc = NoADC
    /\ iopi = NoIOPi

----------------------------------------------------------------------------
(* Interface.set_hardware_connections, lines 125-135, and the end of        *)
(* Interface.__init__.                                                      *)

\* the sensors a write to the chip address 0x48 reaches: every selected channel
Selected(sel) == {s \in muxs \X (1..8) : checkbit(sel[s[1]], s[2] - 1) = 1}

\* for mux in self.muxs: self.bus.write_byte(mux, 0)
CtorReset ==
    /\ pc = "ctor_reset"
    /\ muxsel' = [muxsel EXCEPT ![call.mux] = 0]
    /\ IF call.mux < 2
       THEN /\ call' = [call EXCEPT !.mux = call.mux + 1]
            /\ pc' = pc
       ELSE /\ call' = [call EXCEPT !.mux = 1, !.channel = 1]
            /\ pc' = "ctor_select"
    /\ UNCHANGED <<ad7150, iobus, lights, waste_pump, waste_pump_direction, asynctasks, clock, m, libvars>>

\* self.bus.write_byte(mux, 1 << channel - 1)
CtorSelect ==
    /\ pc = "ctor_select"
    /\ muxsel' = [muxsel EXCEPT ![call.mux] = Pow2(call.channel - 1)]
    /\ pc' = "ctor_setup1"
    /\ UNCHANGED <<call, ad7150, iobus, lights, waste_pump, waste_pump_direction,
                   asynctasks, clock, m, libvars>>

\* write_register(sensor, AD7150_REG_CH1_SETUP, CH1_SETUP_VALUE)
CtorSetup1 ==
    /\ pc = "ctor_setup1"
    /\ ad7150' = [s \in DOMAIN ad7150 |->
                    IF s \in Selected(muxsel)
                    THEN [ad7150[s] EXCEPT !.setup = CH1_SETUP_VALUE] ELSE ad7150[s]]
    /\ pc' = "ctor_setup2"
    /\ UNCHANGED <<call, muxsel, iobus, lights, waste_pump, waste_pump_direction,
                   asynctasks, clock, m, libvars>>

\* write_register(sensor, AD7150_REG_CONFIGURATION, CONFIGURATION_VALUE), then the
\* next channel; channel 8 of mux 0x71 is passed over
CtorSetup2 ==
    /\ pc = "ctor_setup2"
    /\ ad7150' = [s \in DOMAIN ad7150 |->
                    IF s \in Selected(muxsel)
                    THEN [ad7150[s] EXCEPT !.conf = CONFIGURATION_VALUE] ELSE ad7150[s]]
    /\ IF call.channel + 1 > 8 \/ (call.mux = 2 /\ call.channel + 1 = 8)
       THEN pc' = "ctor_close" /\ call' = call
       ELSE pc' = "ctor_select" /\ call' = [call EXCEPT !.channel = call.channel + 1]
    /\ UNCHANGED <<muxsel, iobus, lights, waste_pump, waste_pump_direction,
                   asynctasks, clock, m, libvars>>

\* self.bus.write_byte(mux, 0) after the channels of one mux
CtorClose ==
    /\ pc = "ctor_close"
    /\ muxsel' = [muxsel EXCEPT ![call.mux] = 0]
    /\ IF call.mux < 2
       THEN pc' = "ctor_select" /\ call' = [call EXCEPT !.mux = call.mux + 1, !.channel = 1]
       ELSE pc' = "ctor_turn_off" /\ call' = call
    /\ UNCHANGED <<ad7150, iobus, lights, waste_pump, waste_pump_direction, asynctasks, clock, m, libvars>>

\* load_calibration, then self.turn_off()
CtorTurnOff ==
    /\ pc = "ctor_turn_off"
    /\ iobus' = turn_off_pumps(iobus)
    /\ lights' = 0
    /\ waste_pump' = 0
    /\ waste_pump_direction' = 0
    /\ pc' = "idle"
    /\ call' = NoCall
    /\ UNCHANGED <<muxsel, ad7150, asynctasks, clock, m, libvars>>

Construct == CtorReset \/ CtorSelect \/ CtorSetup1 \/ CtorSetup2 \/ CtorClose \/ CtorTurnOff

\* control goes back to the caller of an Interface method
Return ==
    /\ pc = "ret"
    /\ pc' = "idle"
    /\ call' = NoCall
    /\ UNCHANGED <<muxsel, ad7150, iobus, lights, waste_pump, waste_pump_direction,
                   asynctasks, clock, m, libvars>>

----------------------------------------------------------------------------
(* Interface.measure_LS_capacitance (and measure_volume, which converts its *)
(* result).                                                                 *)

\* the call: the two assertions on lag and nb_measures hold for the arguments drawn
measure_LS_capacitance(op, vial, nb_measures) ==
    /\ pc = "idle"
    /\ call' = [NoCall EXCEPT !.op = op, !.vial = vial, !.nb_measures = nb_measures,
                              !.mux = 1]
    /\ pc' = "ls_reset"
    /\ UNCHANGED <<muxsel, ad7150, iobus, lights, waste_pump, waste_pump_direction,
                   asynctasks, clock>>

MeasureLS(op, vial, nb_measures) ==
    /\ measure_LS_capacitance(op, vial, nb_measures)
    /\ UNCHANGED <<m, libvars>>

\* a reset loop that writes nothing
LsReset_skip ==
    /\ pc = "ls_reset"
    /\ muxsel' = muxsel
    /\ IF call.mux < 2
       THEN call' = [call EXCEPT !.mux = call.mux + 1] /\ pc' = pc
       ELSE call' = call /\ pc' = "ls_select"
    /\ UNCHANGED <<ad7150, iobus, lights, waste_pump, waste_pump_direction, asynctasks, clock, m, libvars>>

\* for mux in self.muxs: self.bus.write_byte(mux, 0)
LsReset ==
    /\ pc = "ls_reset"
    /\ muxsel' = [muxsel EXCEPT ![call.mux] = 0]
    /\ IF call.mux < 2
       THEN call' = [call EXCEPT !.mux = call.mux + 1] /\ pc' = pc
       ELSE call' = call /\ pc' = "ls_select"
    /\ UNCHANGED <<ad7150, iobus, lights, waste_pump, waste_pump_direction, asynctasks, clock, m, libvars>>

\* a select that shifts by the channel number: (1 << channel) - 1
LsSelect_shift ==
    /\ pc = "ls_select"
    /\ LET mc == LS_to_mux(call.vial)
       IN /\ muxsel' = [muxsel EXCEPT ![mc[1]] = Pow2(mc[2]) - 1]
          /\ call' = [call EXCEPT !.mux = mc[1], !.channel = mc[2], !.ii = 0, !.reg = 1]
    /\ pc' = "ls_read"
    /\ UNCHANGED <<ad7150, iobus, lights, waste_pump, waste_pump_direction, asynctasks, clock, m, libvars>>

\* mux, channel = self._LS_to_mux(vial); self.bus.write_byte(self.muxs[mux - 1], 1 << channel - 1)
LsSelect ==
    /\ pc = "ls_select"
    /\ LET mc == LS_to_mux(call.vial)
       IN /\ muxsel' = [muxsel EXCEPT ![mc[1]] = Pow2(mc[2] - 1)]
          /\ call' = [call EXCEPT !.mux = mc[1], !.channel = mc[2], !.ii = 0, !.reg = 1]
    /\ pc' = "ls_read"
    /\ UNCHANGED <<ad7150, iobus, lights, waste_pump, waste_pump_direction, asynctasks, clock, m, libvars>>

\* one read_byte_data(0x48, register) of _read_capacitance: registers 0x05, 0x06,
\* 0x11 in turn, nb_measures times; then the method returns the mean
LsRead ==
    /\ pc = "ls_read"
    /\ IF call.reg < 3
       THEN call' = [call EXCEPT !.reg = call.reg + 1] /\ pc' = pc
       ELSE IF call.ii + 1 < call.nb_measures
            THEN call' = [call EXCEPT !.reg = 1, !.ii = call.ii + 1] /\ pc' = pc
            ELSE call' = call /\ pc' = "ret"
    /\ UNCHANGED <<muxsel, ad7150, iobus, lights, waste_pump, waste_pump_direction,
                   asynctasks, clock, m, libvars>>

MeasureLevel ==
    \E op \in {"measure_LS_capacitance", "measure_volume"}, vial \in vials,
       nb_measures \in 1..MaxMeasures : MeasureLS(op, vial, nb_measures)

NextLS == Construct \/ MeasureLevel \/ LsReset \/ LsSelect \/ LsRead \/ Return

SpecLS == Init /\ [][NextLS]_vars

----------------------------------------------------------------------------
(* The calibration table (calibrations/*.yaml, read by load_calibration):   *)
(* the rate of each pump and of the waste pump, in nanolitres per tick.     *)

PumpRate(pump) == IF pump % 2 = 1 THEN 1000 ELSE 500

WasteRate == 1000

\* t = volume / self.calibration["pumps"][f"pump {pump}"]["rate"]["value"]
volume_to_time(pump, volume) == volume \div PumpRate(pump)

\* an injection that is not clamped
clamp_volume_none(volume, max_volume) == volume

\* min(volume, max_volume)
clamp_volume(volume, max_volume) == Min(volume, max_volume)

----------------------------------------------------------------------------
(* Arguments the pump operations are called with.                           *)

\* pumps 1 and 2 share port A of the expander, pump 9 is on port B, 16 is no pump
PumpIds == {1, 2, 9, 16}
Durations == -1..MaxDt
Volumes == {1000 * v : v \in -1..MaxVol}
MaxVolumes == {0, 1000}

----------------------------------------------------------------------------
(* Interface._add_pumping, run_pump, inject_volume.                         *)

\* the task ensure_future creates: scheduled on the loop, not started
NewTask(pump, dt) == [pump |-> pump, dt |-> dt, st |-> "new", hi |-> -1, lo |-> -1]

\* a run_pump that queues and never executes
run_pump_queue_only(c, pump, dt, run) ==
    IF dt < 0
    THEN /\ pc' = "aborted"
         /\ call' = c
         /\ UNCHANGED <<asynctasks, clock>>
    ELSE /\ asynctasks' = IF dt > 0 THEN Append(asynctasks, NewTask(pump, dt)) ELSE asynctasks
         /\ call' = [c EXCEPT !.dt = dt]
         /\ pc' = "ret"
         /\ clock' = clock

\* a run_pump that runs the batch whatever run says (run defaults to True)
run_pump_run_default(c, pump, dt, run) ==
    IF dt < 0
    THEN /\ pc' = "aborted"
         /\ call' = c
         /\ UNCHANGED <<asynctasks, clock>>
    ELSE IF dt > 0
    THEN /\ asynctasks' = Append(asynctasks, NewTask(pump, dt))
         /\ call' = [c EXCEPT !.dt = dt]
         /\ pc' = "exec"
         /\ clock' = 0
    ELSE /\ pc' = "ret"
         /\ call' = [c EXCEPT !.dt = dt]
         /\ UNCHANGED <<asynctasks, clock>>

\* the body of run_pump, called with the frame c of the public call
run_pump(c, pump, dt, run) ==
    IF dt < 0
    THEN /\ pc' = "aborted"
         /\ call' = c
         /\ UNCHANGED <<asynctasks, clock>>
    ELSE IF dt > 0
    THEN /\ asynctasks' = Append(asynctasks, NewTask(pump, dt))
         /\ call' = [c EXCEPT !.dt = dt]
         /\ IF run THEN pc' = "exec" /\ clock' = 0
                   ELSE pc' = "ret" /\ clock' = clock
    ELSE /\ pc' = "ret"
         /\ call' = [c EXCEPT !.dt = dt]
         /\ UNCHANGED <<asynctasks, clock>>

inject_volume(pump, volume, max_volume, run) ==
    /\ pc = "idle"
    /\ LET c == [NoCall EXCEPT !.op = "inject_volume", !.pump = pump, !.volume = volume,
                               !.max_volume = max_volume, !.run = run]
       IN IF \/ volume < 0
             \/ clamp_volume(volume, max_volume) < 0
             \/ pump \notin available_pumps
          THEN /\ pc' = "aborted"
               /\ call' = c
               /\ UNCHANGED <<asynctasks, clock>>
          ELSE run_pump(c, pump, volume_to_time(pump, clamp_volume(volume, max_volume)), run)
    /\ UNCHANGED <<muxsel, ad7150, iobus, lights, waste_pump, waste_pump_direction>>

RunPump(pump, dt, run) ==
    /\ pc = "idle"
    /\ Len(asynctasks) < MaxTasks
    /\ run_pump([NoCall EXCEPT !.op = "run_pump", !.pump = pump, !.dt = dt, !.run = run],
                pump, dt, run)
    /\ UNCHANGED <<muxsel, ad7150, iobus, lights, waste_pump, waste_pump_direction, m, libvars>>

InjectVolume(pump, volume, max_volume, run) ==
    /\ Len(asynctasks) < MaxTasks
    /\ inject_volume(pump, volume, max_volume, run)
    /\ UNCHANGED <<m, libvars>>

----------------------------------------------------------------------------
(* Interface.execute_pumping: the event loop runs the pending coroutines.   *)
(* The loop is single-threaded and a coroutine gives up control only at its *)
(* await asyncio.sleep(dt), so each step below runs without interleaving.   *)

\* a loop that awaits each task before it starts the next
task_ready_sequential(i) ==
    /\ asynctasks[i].st = "new"
    /\ \A j \in 1..(i - 1) : asynctasks[j].st = "done"

\* the ready queue is first in, first out: the tasks take their first step in the
\* order ensure_future created them
task_ready(i) ==
    /\ asynctasks[i].st = "new"
    /\ \A j \in 1..(i - 1) : asynctasks[j].st # "new"

\* a wait that ends with the first task to complete
gather_done_first == asynctasks = <<>> \/ \E i \in DOMAIN asynctasks : asynctasks[i].st = "done"

\* asyncio.gather(*self.asynctasks) has a result
gather_done == \A i \in DOMAIN asynctasks : asynctasks[i].st = "done"

gather_failed == \E i \in DOMAIN asynctasks : asynctasks[i].st = "failed"

execute_pumping ==
    /\ pc = "idle"
    /\ call' = [NoCall EXCEPT !.op = "execute_pumping"]
    /\ pc' = "exec"
    /\ clock' = 0
    /\ UNCHANGED <<muxsel, ad7150, iobus, lights, waste_pump, waste_pump_direction,
                   asynctasks>>

ExecutePumping == execute_pumping /\ UNCHANGED <<m, libvars>>

\* _pump_coroutine up to its await: the pin goes high and the timer is set; a pump
\* that is not in the registry fails the assertion of _pump_to_pin
TaskStart(i) ==
    /\ pc = "exec"
    /\ task_ready(i)
    /\ LET t == asynctasks[i]
       IN IF t.pump \in available_pumps
          THEN /\ iobus' = write_pin(iobus, pump_to_pin(t.pump)[1], pump_to_pin(t.pump)[2], 1)
               /\ asynctasks' = [asynctasks EXCEPT ![i].st = "sleep", ![i].hi = clock]
          ELSE /\ iobus' = iobus
               /\ asynctasks' = [asynctasks EXCEPT ![i].st = "failed"]
    /\ UNCHANGED <<pc, call, muxsel, ad7150, lights, waste_pump, waste_pump_direction, clock, m, libvars>>

Sleeping == {i \in DOMAIN asynctasks : asynctasks[i].st = "sleep"}
Due == {i \in Sleeping : asynctasks[i].hi + asynctasks[i].dt <= clock}

\* no task is ready to run: the loop sleeps until the earliest timer
Tick ==
    /\ pc = "exec"
    /\ \A i \in DOMAIN asynctasks : ~task_ready(i) /\ asynctasks[i].st # "failed"
    /\ Sleeping # {}
    /\ Due = {}
    /\ clock' = SetMin({asynctasks[i].hi + asynctasks[i].dt : i \in Sleeping})
    /\ UNCHANGED <<pc, call, muxsel, ad7150, iobus, lights, waste_pump,
                   waste_pump_direction, asynctasks, m, libvars>>

\* a coroutine that ends without driving its pin low
TaskWake_high(i) ==
    /\ pc = "exec"
    /\ \A j \in DOMAIN asynctasks : ~task_ready(j) /\ asynctasks[j].st # "failed"
    /\ i \in Due
    /\ iobus' = iobus
    /\ asynctasks' = [asynctasks EXCEPT ![i].st = "done", ![i].lo = clock]
    /\ UNCHANGED <<pc, call, muxsel, ad7150, lights, waste_pump, waste_pump_direction, clock, m, libvars>>

\* _pump_coroutine after its await: the pin goes low and the task is done
TaskWake(i) ==
    /\ pc = "exec"
    /\ \A j \in DOMAIN asynctasks : ~task_ready(j) /\ asynctasks[j].st # "failed"
    /\ i \in Due
    /\ iobus' = write_pin(iobus, pump_to_pin(asynctasks[i].pump)[1],
                          pump_to_pin(asynctasks[i].pump)[2], 0)
    /\ asynctasks' = [asynctasks EXCEPT ![i].st = "done", ![i].lo = clock]
    /\ UNCHANGED <<pc, call, muxsel, ad7150, lights, waste_pump, waste_pump_direction, clock, m, libvars>>

\* an execute_pumping that keeps the finished tasks in self.asynctasks
ExecuteEnd_keep ==
    /\ pc = "exec"
    /\ gather_done
    /\ pc' = "ret"
    /\ UNCHANGED <<call, muxsel, ad7150, iobus, lights, waste_pump, waste_pump_direction,
                   asynctasks, clock, m, libvars>>

\* run_until_complete returns; self.asynctasks = []
ExecuteEnd ==
    /\ pc = "exec"
    /\ gather_done
    /\ asynctasks' = <<>>
    /\ pc' = "ret"
    /\ UNCHANGED <<call, muxsel, ad7150, iobus, lights, waste_pump, waste_pump_direction, clock, m, libvars>>

\* a task raised: every task has taken its first step in the loop iteration that ran
\* the failing one, then gather passes the exception on and run_until_complete raises
\* it; self.asynctasks is not reset
ExecuteRaise ==
    /\ pc = "exec"
    /\ gather_failed
    /\ \A i \in DOMAIN asynctasks : asynctasks[i].st # "new"
    /\ pc' = "aborted"
    /\ UNCHANGED <<call, muxsel, ad7150, iobus, lights, waste_pump, waste_pump_direction,
                   asynctasks, clock, m, libvars>>

EventLoop ==
    \/ \E i \in DOMAIN asynctasks : TaskStart(i)
    \/ Tick
    \/ \E i \in DOMAIN asynctasks : TaskWake(i)
    \/ ExecuteEnd

----------------------------------------------------------------------------
(* Interface.remove_waste and run_waste_pump: the waste pump is driven by   *)
(* the main thread, which sleeps while the pump runs.                       *)

\* a run_waste_pump that switches the pump on for a duration of 0 too
run_waste_pump_zero(c, dt, reversed) ==
    /\ call' = [c EXCEPT !.dt = dt, !.reversed = reversed]
    /\ pc' = IF dt < 0 THEN "aborted" ELSE "waste_direction"

run_waste_pump(c, dt, reversed) ==
    /\ call' = [c EXCEPT !.dt = dt, !.reversed = reversed]
    /\ pc' = IF dt < 0 THEN "aborted" ELSE IF dt > 0 THEN "waste_direction" ELSE "ret"

remove_waste(volume) ==
    /\ pc = "idle"
    /\ LET c == [NoCall EXCEPT !.op = "remove_waste", !.volume = volume]
       IN IF volume < 0 THEN pc' = "aborted" /\ call' = c
          ELSE run_waste_pump(c, volume \div WasteRate, FALSE)
    /\ UNCHANGED <<muxsel, ad7150, iobus, lights, waste_pump, waste_pump_direction,
                   asynctasks, clock>>

RunWastePump(dt, reversed) ==
    /\ pc = "idle"
    /\ run_waste_pump([NoCall EXCEPT !.op = "run_waste_pump"], dt, reversed)
    /\ UNCHANGED <<muxsel, ad7150, iobus, lights, waste_pump, waste_pump_direction,
                   asynctasks, clock, m, libvars>>

RemoveWaste(volume) == remove_waste(volume) /\ UNCHANGED <<m, libvars>>

\* self.switch_waste_pump_direction(reversed)
WasteDirection ==
    /\ pc = "waste_direction"
    /\ waste_pump_direction' = IF call.reversed THEN 1 ELSE 0
    /\ pc' = "waste_on"
    /\ UNCHANGED <<call, muxsel, ad7150, iobus, lights, waste_pump, asynctasks, clock, m, libvars>>

\* self.switch_waste_pump(True)
WasteOn ==
    /\ pc = "waste_on"
    /\ waste_pump' = 1
    /\ pc' = "waste_sleep"
    /\ UNCHANGED <<call, muxsel, ad7150, iobus, lights, waste_pump_direction, asynctasks, clock, m, libvars>>

\* time.sleep(dt)
WasteSleep ==
    /\ pc = "waste_sleep"
    /\ pc' = "waste_off"
    /\ UNCHANGED <<call, muxsel, ad7150, iobus, lights, waste_pump, waste_pump_direction,
                   asynctasks, clock, m, libvars>>

\* self.switch_waste_pump(False)
WasteOff ==
    /\ pc = "waste_off"
    /\ waste_pump' = 0
    /\ pc' = "waste_restore"
    /\ UNCHANGED <<call, muxsel, ad7150, iobus, lights, waste_pump_direction, asynctasks, clock, m, libvars>>

\* a run that leaves the direction as it set it
WasteRestore_keep ==
    /\ pc = "waste_restore"
    /\ pc' = "ret"
    /\ UNCHANGED <<call, muxsel, ad7150, iobus, lights, waste_pump, waste_pump_direction,
                   asynctasks, clock, m, libvars>>

\* self.switch_waste_pump_direction(False)
WasteRestore ==
    /\ pc = "waste_restore"
    /\ waste_pump_direction' = 0
    /\ pc' = "ret"
    /\ UNCHANGED <<call, muxsel, ad7150, iobus, lights, waste_pump, asynctasks, clock, m, libvars>>

WastePump == WasteDirection \/ WasteOn \/ WasteSleep \/ WasteOff \/ WasteRestore

----------------------------------------------------------------------------
(* The pump operations of the Interface, called in any order.               *)

PumpCall ==
    \/ \E pump \in PumpIds, volume \in Volumes, max_volume \in MaxVolumes, run \in BOOLEAN :
          InjectVolume(pump, volume, max_volume, run)
    \/ \E pump \in PumpIds, dt \in Durations, run \in BOOLEAN : RunPump(pump, dt, run)
    \/ ExecutePumping
    \/ \E volume \in Volumes : RemoveWaste(volume)
    \/ \E dt \in Durations, reversed \in BOOLEAN : RunWastePump(dt, reversed)

NextPump == Construct \/ PumpCall \/ EventLoop \/ ExecuteRaise \/ WastePump \/ Return

SpecPump == Init /\ [][NextPump]_vars

----------------------------------------------------------------------------
(* Morbidostat: the tables of __init__ and set_pumps.                       *)

mL(x) == x * 1000000

cultures == <<5, 10, 15>>
phage_vials == <<1, 2, 3, 6, 7, 8, 11, 12, 13>>
culture_volume == mL(20)
target_OD == 400

\* a lookup that matches the input and the kind of output, not the output's number
get_pump_number_any_output(input_type, input_number, output_type, output_number) ==
    LET pump == {i \in DOMAIN morbidostat_pumps :
                    /\ morbidostat_pumps[i].input = <<input_type, input_number>>
                    /\ morbidostat_pumps[i].output[1] = output_type}
    IN IF pump # {} THEN morbidostat_pumps[CHOOSE i \in pump : \A j \in pump : i <= j].number
                    ELSE 0

\* the number of the one pump with this input and output; 0 stands for the failed
\* assertion len(pump) == 1
get_pump_number(input_type, input_number, output_type, output_number) ==
    LET pump == {i \in DOMAIN morbidostat_pumps :
                    /\ morbidostat_pumps[i].input = <<input_type, input_number>>
                    /\ morbidostat_pumps[i].output = <<output_type, output_number>>}
    IN IF Cardinality(pump) = 1 THEN morbidostat_pumps[CHOOSE i \in pump : TRUE].number
                                ELSE 0

\* a lookup that gives the first pump that matches, however many do
first_match(pump) == Len(pump) >= 1

\* assert len(pump) == 1
one_match(pump) == Len(pump) = 1

\* the list comprehension of get_pump_number: the pumps with this input and output
matching(table, input, output) ==
    SelectSeq(table, LAMBDA p : p.input = input /\ p.output = output)

----------------------------------------------------------------------------
(* Morbidostat operations as the sequence of calls they make.  A call whose *)
(* arguments depend on what was measured is expanded when it is reached.    *)

Ins(ins, x, y, z) == [ins |-> ins, x |-> x, y |-> y, z |-> z]

\* for vial in self.cultures + self.phage_vials: self.interface.measure_OD(vial)
\* self.ODs.loc[len(self.ODs)] = [time] + ODs
record_ODs ==
    [i \in 1..Len(cultures \o phage_vials) |-> Ins("measure_OD", (cultures \o phage_vials)[i], 0, 0)]
    \o <<Ins("append_ODs", 0, 0, 0)>>

\* for vial in self.cultures + self.phage_vials: self.interface.measure_LS_capacitance(vial)
\* self.volumes.loc[len(self.volumes)] = [time] + volumes
record_volumes ==
    [i \in 1..Len(cultures \o phage_vials) |->
        Ins("measure_LS_capacitance", (cultures \o phage_vials)[i], 0, 0)]
    \o <<Ins("append_volumes", 0, 0, 0)>>

maintain_cultures(target) ==
    [culture \in 1..Len(cultures) |-> Ins("maintain_culture", culture, target, 0)]
    \o <<Ins("execute_pumping", 0, 0, 0)>>

\* a share of one half of the volume times the safety factor
phage_share_half(volume, safety_factor) == (volume \div 1000) * 50 * safety_factor

\* a share that is the whole volume times the safety factor
phage_share_whole(volume, safety_factor) == (volume \div 10) * safety_factor

\* volume * 0.33 * safety_factor, the safety factor in tenths
phage_share(volume, safety_factor) == (volume \div 1000) * 33 * safety_factor

feed_phages(volume, safety_factor) ==
    << Ins("inject_bacteria", 1, 1, phage_share(volume[1], safety_factor)),
       Ins("inject_bacteria", 1, 2, phage_share(volume[1], safety_factor)),
       Ins("inject_bacteria", 1, 3, phage_share(volume[1], safety_factor)),
       Ins("inject_bacteria", 2, 4, phage_share(volume[2], safety_factor)),
       Ins("inject_bacteria", 2, 5, phage_share(volume[2], safety_factor)),
       Ins("inject_bacteria", 2, 6, phage_share(volume[2], safety_factor)),
       Ins("inject_bacteria", 3, 7, phage_share(volume[3], safety_factor)),
       Ins("inject_bacteria", 3, 8, phage_share(volume[3], safety_factor)),
       Ins("inject_bacteria", 3, 9, phage_share(volume[3], safety_factor)),
       Ins("execute_pumping", 0, 0, 0) >>

wait_mixing(dt) == <<Ins("wait_mixing", dt, 0, 0)>>

\* feed_phages(volumes) and remove_waste(min(10, max(volumes)) * safety_factor) take
\* the list maintain_cultures returned
cycle(safety_factor) ==
    record_ODs \o record_volumes
    \o maintain_cultures(target_OD) \o wait_mixing(5)
    \o record_volumes \o record_ODs
    \o <<Ins("feed_phages", 7, 0, 0)>> \o wait_mixing(5)
    \o record_volumes \o record_ODs
    \o <<Ins("remove_waste_of_cycle", safety_factor, 0, 0)>> \o wait_mixing(5)
    \o record_ODs \o record_volumes

inject_media(volume) ==
    [culture \in 1..Len(cultures) |-> Ins("inject_media", culture, volume, mL(10))]

\* df_OD = pd.read_csv(self.OD_savefile), then the loop over the cultures
top_low_cultures(nb_cycles, volume) ==
    <<Ins("read_csv", 0, 0, 0)>>
    \o [culture \in 1..Len(cultures) |-> Ins("top_culture", culture, volume, nb_cycles)]
    \o <<Ins("execute_pumping", 0, 0, 0)>>

cleaning_cycle(volume, safety_factor) ==
    inject_media(volume) \o <<Ins("execute_pumping", 0, 0, 0)>> \o wait_mixing(10)
    \o record_volumes
    \o feed_phages([ii \in 1..Len(phage_vials) |-> Min(mL(3), (volume \div 100) * 33)], 10)
    \o wait_mixing(10)
    \o record_volumes
    \o <<Ins("remove_waste", volume * safety_factor, 0, 0)>>
    \o record_volumes

RECURSIVE Repeat(_, _)
Repeat(n, todo) == IF n = 0 THEN <<>> ELSE todo \o Repeat(n - 1, todo)

empty_cultures ==
    Repeat(3, feed_phages([ii \in 1..3 |-> mL(3)], 7)
              \o record_volumes
              \o wait_mixing(10)
              \o <<Ins("remove_waste", mL(10), 0, 0)>>
              \o record_volumes)

fill_vials ==
    Repeat(5, inject_media(mL(10)) \o <<Ins("execute_pumping", 0, 0, 0)>>
              \o wait_mixing(10)
              \o feed_phages([ii \in 1..Len(cultures) |->
                                 Min(mL(1), mL(10) \div Len(cultures))], 7)
              \o <<Ins("remove_waste", mL(10) * 2, 0, 0)>>)

----------------------------------------------------------------------------
(* What the Morbidostat operations are called with, and what the sensors    *)
(* give.                                                                    *)

\* optical densities below, at and above the target; 700 asks for more than the 10 mL
\* one injection may hold
ODValues == {200, 400, 420, 700}

FeedVolumes == {<<a, b, c>> : a, b, c \in {0, mL(1), mL(15)}}

Operations ==
    {[op |-> "cycle", todo |-> cycle(2), volumes |-> <<>>],
     [op |-> "maintain_cultures", todo |-> maintain_cultures(target_OD), volumes |-> <<>>],
     [op |-> "top_low_cultures", todo |-> top_low_cultures(10, mL(10)), volumes |-> <<>>],
     [op |-> "cleaning_cycle", todo |-> cleaning_cycle(mL(10), 2), volumes |-> <<>>],
     [op |-> "empty_cultures", todo |-> empty_cultures, volumes |-> <<>>],
     [op |-> "fill_vials", todo |-> fill_vials, volumes |-> <<>>]}
    \cup {[op |-> "feed_phages", todo |-> <<Ins("feed_phages", 7, 0, 0)>>, volumes |-> volume] :
             volume \in FeedVolumes}

----------------------------------------------------------------------------
(* The steps of a Morbidostat operation.                                    *)

Next_ins == Head(m.todo)

Reached(ins) == pc = "idle" /\ m.todo # <<>> /\ Next_ins.ins = ins

Done(volumes) == [m EXCEPT !.todo = Tail(m.todo), !.volumes = volumes]

\* a Morbidostat method is called; the dataframes, the savefiles and the
\* experiment time are the object's and outlive the call
Start(o) ==
    /\ pc = "idle"
    /\ m.todo = <<>>
    /\ m.recorded.ODs < MaxRows
    /\ m.recorded.levels < MaxRows
    /\ m' = [m EXCEPT !.op = o.op, !.todo = o.todo, !.volumes = o.volumes,
                       !.current_OD = 0, !.row = <<>>, !.ii = 0, !.entry = m.recorded]
    /\ UNCHANGED <<pc, call, muxsel, ad7150, iobus, lights, waste_pump,
                   waste_pump_direction, asynctasks, clock>>
    /\ UNCHANGED libvars

Operate == \E o \in Operations : Start(o)

\* a record_ODs that writes each value into the dataframe as it is measured
MeasureOD_in_place ==
    /\ Reached("measure_OD")
    /\ \E ok \in BOOLEAN :
          /\ pc' = IF ok THEN "idle" ELSE "aborted"
          /\ call' = IF ok THEN call
                     ELSE [NoCall EXCEPT !.op = "measure_OD", !.vial = Next_ins.x]
          /\ m' = [Done(m.volumes) EXCEPT
                      !.row = Append(m.row, Next_ins.x),
                      !.ODs = IF ok /\ m.row = <<>>
                              THEN Append(m.ODs, [n |-> m.recorded.ODs + 1, vials |-> <<Next_ins.x>>])
                              ELSE m.ODs]
    /\ UNCHANGED <<muxsel, ad7150, iobus, lights, waste_pump, waste_pump_direction,
                   asynctasks, clock>>
    /\ UNCHANGED libvars

\* self.interface.measure_OD(vial): the ADC gives a value, or its conversion times out
MeasureOD ==
    /\ Reached("measure_OD")
    /\ \E ok \in BOOLEAN :
          /\ pc' = IF ok THEN "idle" ELSE "aborted"
          /\ call' = IF ok THEN call
                     ELSE [NoCall EXCEPT !.op = "measure_OD", !.vial = Next_ins.x]
    /\ m' = [Done(m.volumes) EXCEPT !.row = Append(m.row, Next_ins.x)]
    /\ UNCHANGED <<muxsel, ad7150, iobus, lights, waste_pump, waste_pump_direction,
                   asynctasks, clock>>
    /\ UNCHANGED libvars

\* self.interface.measure_LS_capacitance(vial), nb_measures = 10
MeasureVolume ==
    /\ Reached("measure_LS_capacitance")
    /\ measure_LS_capacitance("measure_LS_capacitance", Next_ins.x, 10)
    /\ m' = [Done(m.volumes) EXCEPT !.row = Append(m.row, Next_ins.x)]
    /\ UNCHANGED libvars

\* a row of a dataframe: its rank among the rows recorded, and the vial of each value
Row(n, values) == [n |-> n, vials |-> values]

\* self.ODs.loc[len(self.ODs)] = ... and self.volumes.loc[len(self.volumes)] = ...
AppendRow ==
    /\ \/ /\ Reached("append_ODs")
          /\ m' = [Done(m.volumes) EXCEPT
                      !.ODs = Append(m.ODs, Row(m.recorded.ODs + 1, m.row)),
                      !.recorded.ODs = m.recorded.ODs + 1,
                      !.row = <<>>]
       \/ /\ Reached("append_volumes")
          /\ m' = [Done(m.volumes) EXCEPT
                      !.levels = Append(m.levels, Row(m.recorded.levels + 1, m.row)),
                      !.recorded.levels = m.recorded.levels + 1,
                      !.row = <<>>]
    /\ UNCHANGED <<pc, call, muxsel, ad7150, iobus, lights, waste_pump,
                   waste_pump_direction, asynctasks, clock>>
    /\ UNCHANGED libvars

\* DataFrame.to_csv(file, mode="a", header=header) with header = not os.path.exists(file)
to_csv(file, frame) ==
    [exists |-> TRUE,
     header |-> file.header + (IF file.exists THEN 0 ELSE 1),
     rows |-> file.rows \o frame]

\* a drop that removes nothing
drop_keep(frame) == frame

\* DataFrame.drop(self.index, inplace=True)
drop(frame) == <<>>

\* Morbidostat.save_data
SaveData ==
    /\ Reached("save_data")
    /\ m' = [Done(m.volumes) EXCEPT
                !.OD_savefile = to_csv(m.OD_savefile, m.ODs),
                !.ODs = drop(m.ODs),
                !.volumes_savefile = to_csv(m.volumes_savefile, m.levels),
                !.levels = drop(m.levels)]
    /\ UNCHANGED <<pc, call, muxsel, ad7150, iobus, lights, waste_pump,
                   waste_pump_direction, asynctasks, clock>>
    /\ UNCHANGED libvars

\* (current_OD / target_OD - 1) * self.culture_volume
volume_to_pump(current_OD, target) ==
    (((current_OD - target) * (culture_volume \div 1000)) \div target) * 1000

\* maintain_culture(culture, target_OD); maintain_cultures appends what it returns
MaintainCulture ==
    /\ Reached("maintain_culture")
    /\ \E current_OD \in ODValues \cup {-1} :
          LET culture == Next_ins.x
              target == Next_ins.y
              media_pump_number == get_pump_number("media", 1, "culture", culture)
          IN IF current_OD = -1 \/ (current_OD > target /\ media_pump_number = 0)
             THEN /\ pc' = "aborted"
                  /\ call' = [NoCall EXCEPT !.op = "measure_OD", !.vial = cultures[culture]]
                  /\ m' = [Done(m.volumes) EXCEPT !.current_OD = current_OD]
                  /\ UNCHANGED <<muxsel, ad7150, iobus, lights, waste_pump,
                                 waste_pump_direction, asynctasks, clock>>
             ELSE IF current_OD > target
             THEN /\ inject_volume(media_pump_number, volume_to_pump(current_OD, target),
                                   mL(10), FALSE)
                  /\ m' = [Done(Append(m.volumes, volume_to_pump(current_OD, target)))
                            EXCEPT !.current_OD = current_OD]
             ELSE /\ m' = [Done(Append(m.volumes, 0)) EXCEPT !.current_OD = current_OD]
                  /\ UNCHANGED <<pc, call, muxsel, ad7150, iobus, lights, waste_pump,
                                 waste_pump_direction, asynctasks, clock>>
    /\ UNCHANGED libvars

\* self.interface.inject_volume(media_pump_number, volume, verbose=verbose)
InjectMedia ==
    /\ Reached("inject_media")
    /\ inject_volume(get_pump_number("media", 1, "culture", Next_ins.x), Next_ins.y,
                     Next_ins.z, FALSE)
    /\ m' = Done(m.volumes)
    /\ UNCHANGED libvars

\* inject_bacteria(culture, phage_vial, volume): inject_volume with max_volume=3
InjectBacteria ==
    /\ Reached("inject_bacteria")
    /\ inject_volume(get_pump_number("culture", Next_ins.x, "phage vial", Next_ins.y),
                     Next_ins.z, mL(3), FALSE)
    /\ m' = Done(m.volumes)
    /\ UNCHANGED libvars

\* pd.read_csv(self.OD_savefile): fails when the file does not exist
ReadCSV ==
    /\ Reached("read_csv")
    /\ pc' = IF m.OD_savefile.exists THEN "idle" ELSE "aborted"
    /\ call' = IF m.OD_savefile.exists THEN call ELSE [NoCall EXCEPT !.op = "read_csv"]
    /\ m' = Done(m.volumes)
    /\ UNCHANGED <<muxsel, ad7150, iobus, lights, waste_pump, waste_pump_direction,
                   asynctasks, clock>>
    /\ UNCHANGED libvars

\* a window that is the last size rows for a size of 0 too
last_rows_none(rows, size) == SubSeq(rows, Max(1, Len(rows) - size + 1), Len(rows))

\* values[-size:], which for a size of 0 is the whole column
last_rows(rows, size) ==
    IF size = 0 THEN rows ELSE SubSeq(rows, Max(1, Len(rows) - size + 1), Len(rows))

\* max(past_OD) < self.target_OD, for the rows of the file that keep their ODs; the
\* rows the control loop records keep none here, and give either outcome
is_low(past, culture) ==
    IF \A i \in DOMAIN past : "ODs" \in DOMAIN past[i]
    THEN {\A i \in DOMAIN past : past[i].ODs[culture] < target_OD}
    ELSE BOOLEAN

\* top_low_cultures, for one culture: the ODs of the last nb_cycles * 4 rows of the
\* saved file decide whether the culture gets the volume; max() of no row fails
TopCulture ==
    /\ Reached("top_culture")
    /\ LET past_OD == last_rows(m.OD_savefile.rows, Next_ins.z * 4)
       IN  IF past_OD = <<>>
           THEN /\ pc' = "aborted"
                /\ call' = [NoCall EXCEPT !.op = "top_low_cultures"]
                /\ UNCHANGED <<muxsel, ad7150, iobus, lights, waste_pump,
                               waste_pump_direction, asynctasks, clock>>
           ELSE \E low \in is_low(past_OD, Next_ins.x) :
                   IF low
                   THEN inject_volume(get_pump_number("media", 1, "culture", Next_ins.x),
                                      Next_ins.y, mL(10), FALSE)
                   ELSE UNCHANGED <<pc, call, muxsel, ad7150, iobus, lights, waste_pump,
                                    waste_pump_direction, asynctasks, clock>>
    /\ m' = Done(m.volumes)
    /\ UNCHANGED libvars

\* an execute_pumping that returns without running the loop
ExecuteQueued_skip ==
    /\ Reached("execute_pumping")
    /\ m' = Done(m.volumes)
    /\ UNCHANGED <<pc, call, muxsel, ad7150, iobus, lights, waste_pump,
                   waste_pump_direction, asynctasks, clock>>
    /\ UNCHANGED libvars

\* self.interface.execute_pumping()
ExecuteQueued ==
    /\ Reached("execute_pumping")
    /\ execute_pumping
    /\ m' = Done(m.volumes)
    /\ UNCHANGED libvars

\* self.interface.wait_mixing(dt): the main thread sleeps
WaitMixing ==
    /\ Reached("wait_mixing")
    /\ m' = Done(m.volumes)
    /\ UNCHANGED <<pc, call, muxsel, ad7150, iobus, lights, waste_pump,
                   waste_pump_direction, asynctasks, clock>>
    /\ UNCHANGED libvars

\* feed_phages(volume, safety_factor) is entered with the list volumes: as an
\* operation of its own, or by self.feed_phages(volumes, verbose=True) in cycle
FeedPhages ==
    /\ Reached("feed_phages")
    /\ m' = [m EXCEPT !.todo = feed_phages(m.volumes, Next_ins.x) \o Tail(m.todo)]
    /\ UNCHANGED <<pc, call, muxsel, ad7150, iobus, lights, waste_pump,
                   waste_pump_direction, asynctasks, clock>>
    /\ UNCHANGED libvars

\* self.interface.remove_waste(volume, verbose)
RemoveWasteVolume ==
    /\ Reached("remove_waste")
    /\ remove_waste(Next_ins.x)
    /\ m' = Done(m.volumes)
    /\ UNCHANGED libvars

\* self.interface.remove_waste(min(10, max(volumes)) * safety_factor, verbose=True)
RemoveWasteOfCycle ==
    /\ Reached("remove_waste_of_cycle")
    /\ remove_waste(Min(mL(10), SetMax(Range(m.volumes))) * Next_ins.x)
    /\ m' = Done(m.volumes)
    /\ UNCHANGED libvars

MorbidostatStep ==
    \/ MeasureOD
    \/ MeasureVolume
    \/ AppendRow
    \/ MaintainCulture
    \/ InjectMedia
    \/ InjectBacteria
    \/ ReadCSV
    \/ ExecuteQueued
    \/ WaitMixing
    \/ FeedPhages
    \/ RemoveWasteVolume
    \/ RemoveWasteOfCycle

NextM ==
    \/ Construct
    \/ Operate
    \/ MorbidostatStep
    \/ LsReset \/ LsSelect \/ LsRead
    \/ EventLoop
    \/ WastePump
    \/ Return

SpecM == Init /\ [][NextM]_vars

----------------------------------------------------------------------------
(* The data log: record_ODs, record_volumes and save_data called in any     *)
(* order on one Morbidostat.  The field levels is the dataframe             *)
(* self.volumes.                                                            *)

DataOperations ==
    {[op |-> "record_ODs", todo |-> record_ODs, volumes |-> <<>>],
     [op |-> "record_volumes", todo |-> record_volumes, volumes |-> <<>>]}

\* save_data records nothing, so it may be called whatever was recorded
OperateData ==
    \/ \E o \in DataOperations : Start(o)
    \/ /\ pc = "idle"
       /\ m.todo = <<>>
       /\ m' = [m EXCEPT !.op = "save_data", !.todo = <<Ins("save_data", 0, 0, 0)>>]
       /\ UNCHANGED <<pc, call, muxsel, ad7150, iobus, lights, waste_pump,
                      waste_pump_direction, asynctasks, clock, libvars>>

NextData ==
    \/ Construct
    \/ OperateData
    \/ MeasureOD
    \/ MeasureVolume
    \/ AppendRow
    \/ SaveData
    \/ LsReset \/ LsSelect \/ LsRead
    \/ Return

SpecData == Init /\ [][NextData]_vars

----------------------------------------------------------------------------
(* Morbidostat.run.  Time is counted in units of 100 seconds, the length of  *)
(* the sleep that follows switch_light(True); the experiment time is the     *)
(* time slept since the Morbidostat was constructed.                         *)

\* a run that switches the light on once the loop has ended
run_light_late(cycle_time, tot_time) ==
    <<Ins("sleep", 1, 0, 0), Ins("while", cycle_time, tot_time, 0),
      Ins("switch_light", 1, 0, 0), Ins("switch_light", 0, 0, 0)>>

\* run(cycle_time, tot_time): light on, sleep, the loop, light off
run(cycle_time, tot_time) ==
    <<Ins("switch_light", 1, 0, 0), Ins("sleep", 1, 0, 0),
      Ins("while", cycle_time, tot_time, 0), Ins("switch_light", 0, 0, 0)>>

\* the body of the loop: cycle(), save_data(), ii += 1 and the test of ii, sleep
body(cycle_time) ==
    cycle(2) \o <<Ins("save_data", 0, 0, 0), Ins("count_cycle", 0, 0, 0),
                  Ins("sleep", cycle_time, 0, 0)>>

RunOperations ==
    {[op |-> "run", todo |-> run(1, tot_time), volumes |-> <<>>] : tot_time \in {1, MaxTime}}

OperateRun ==
    /\ m.op = "none"
    /\ \E o \in RunOperations : Start(o)

\* self.interface.switch_light(state) of run
RunSwitchLight ==
    /\ Reached("switch_light")
    /\ lights' = Next_ins.x
    /\ call' = [NoCall EXCEPT !.op = "switch_light"]
    /\ m' = Done(m.volumes)
    /\ UNCHANGED <<pc, muxsel, ad7150, iobus, waste_pump, waste_pump_direction,
                   asynctasks, clock>>
    /\ UNCHANGED libvars

\* time.sleep(dt)
Sleep ==
    /\ Reached("sleep")
    /\ m' = [Done(m.volumes) EXCEPT !.time = m.time + Next_ins.x]
    /\ UNCHANGED <<pc, call, muxsel, ad7150, iobus, lights, waste_pump,
                   waste_pump_direction, asynctasks, clock>>
    /\ UNCHANGED libvars

\* a loop test that never fails
experiment_goes_on_ever(time, tot_time) == TRUE

\* self.experiment_time() < tot_time
experiment_goes_on(time, tot_time) == time < tot_time

\* while self.experiment_time() < tot_time: the body is entered, or the loop is left
RunLoop ==
    /\ Reached("while")
    /\ IF experiment_goes_on(m.time, Next_ins.y)
       THEN m' = [m EXCEPT !.todo = body(Next_ins.x) \o m.todo,
                           !.volumes = <<>>, !.current_OD = 0, !.entry = m.recorded]
       ELSE m' = Done(m.volumes)
    /\ UNCHANGED <<pc, call, muxsel, ad7150, iobus, lights, waste_pump,
                   waste_pump_direction, asynctasks, clock>>
    /\ UNCHANGED libvars

\* ii += 1; if ii % 10 == 0: self.top_low_cultures(nb_cycles=10, volume=10)
CountCycle ==
    /\ Reached("count_cycle")
    /\ m' = [m EXCEPT !.ii = m.ii + 1,
                      !.todo = (IF (m.ii + 1) % 10 = 0 THEN top_low_cultures(10, mL(10))
                                ELSE <<>>) \o Tail(m.todo)]
    /\ UNCHANGED <<pc, call, muxsel, ad7150, iobus, lights, waste_pump,
                   waste_pump_direction, asynctasks, clock>>
    /\ UNCHANGED libvars

RunStep ==
    \/ RunSwitchLight
    \/ Sleep
    \/ RunLoop
    \/ SaveData
    \/ CountCycle

\* the steps of the methods run calls
CycleStep ==
    \/ MeasureOD
    \/ MeasureVolume
    \/ AppendRow
    \/ MaintainCulture
    \/ InjectBacteria
    \/ ReadCSV
    \/ TopCulture
    \/ ExecuteQueued
    \/ WaitMixing
    \/ FeedPhages
    \/ RemoveWasteOfCycle

----------------------------------------------------------------------------
(* get_pump_number on its own: called with any input and output on the      *)
(* table of pumps, which a further call of set_pumps extends by the same    *)
(* twelve entries (self.pumps += ...).                                      *)

InputTypes == {"media", "culture", "phages"}
OutputTypes == {"culture", "phage vial"}
InputNumbers == 0..4
OutputNumbers == 0..10

\* the other variables, at rest while a function is checked on its own
InterfaceAtRest ==
    /\ pc = "idle"
    /\ call = NoCall
    /\ muxsel = [i \in muxs |-> 0]
    /\ ad7150 = [s \in muxs \X (1..8) |-> [setup |-> 0, conf |-> 0]]
    /\ iobus = [n \in 1..NbIOPi |-> [A |-> 0, B |-> 0]]
    /\ lights = 0
    /\ waste_pump = 0
    /\ waste_pump_direction = 0
    /\ asynctasks = <<>>
    /\ clock = 0

AtRest == InterfaceAtRest /\ m = NoOperation

StayAtRest ==
    UNCHANGED <<pc, call, muxsel, ad7150, iobus, lights, waste_pump, waste_pump_direction,
                asynctasks, clock, m>>

InitLookup ==
    /\ AtRest
    /\ lookup = NoLookup
    /\ adc = NoADC
    /\ iopi = NoIOPi

\* Morbidostat.set_pumps called once more
SetPumps ==
    /\ Len(lookup.pumps) < MaxSetPumps * Len(morbidostat_pumps)
    /\ lookup' = [NoLookup EXCEPT !.op = "set_pumps",
                                  !.pumps = lookup.pumps \o morbidostat_pumps]
    /\ StayAtRest
    /\ UNCHANGED <<adc, iopi>>

\* Morbidostat.get_pump_number(input_type, input_number, output_type, output_number)
GetPumpNumber ==
    /\ \E input \in InputTypes \X InputNumbers, output \in OutputTypes \X OutputNumbers :
          LET pump == matching(lookup.pumps, input, output)
          IN  lookup' = [lookup EXCEPT
                            !.op = "get_pump_number",
                            !.input = input,
                            !.output = output,
                            !.raised = ~one_match(pump),
                            !.number = IF one_match(pump) THEN pump[1].number ELSE 0]
    /\ StayAtRest
    /\ UNCHANGED <<adc, iopi>>

NextLookup ==
    \/ SetPumps
    \/ GetPumpNumber

SpecLookup == InitLookup /\ [][NextLookup]_vars

----------------------------------------------------------------------------
(* top_low_cultures on its own, on a Morbidostat whose run directory holds   *)
(* the OD savefile of earlier cycles, or none.  The rows of this file keep   *)
(* the OD of each culture.                                                   *)

\* the ODs of the three cultures in one row: below the target, at it, above it
RowODs == {<<300, 300, 300>>, <<300, 400, 500>>, <<400, 300, 300>>}

FilesOfRows ==
    UNION {[1..k -> RowODs] : k \in 0..MaxFileRows}

\* the savefile absent, or written by to_csv with a header and these rows
TopFiles ==
    {NoFile} \cup
    {[exists |-> TRUE, header |-> 1,
      rows |-> [i \in DOMAIN f |-> [n |-> i, vials |-> cultures \o phage_vials, ODs |-> f[i]]]] :
        f \in FilesOfRows}

TopOperations ==
    {[op |-> "top_low_cultures", todo |-> top_low_cultures(nb_cycles, volume), volumes |-> <<>>] :
        nb_cycles \in {0, 1, 10}, volume \in {0, mL(10)}}

InitTop ==
    /\ InterfaceAtRest
    /\ \E file \in TopFiles : m = [NoOperation EXCEPT !.OD_savefile = file]
    /\ lookup = NoLookup
    /\ adc = NoADC
    /\ iopi = NoIOPi

OperateTop == \E o \in TopOperations : Start(o)

NextTop ==
    \/ OperateTop
    \/ ReadCSV
    \/ TopCulture
    \/ ExecuteQueued
    \/ EventLoop
    \/ Return

SpecTop == InitTop /\ [][NextTop]_vars

----------------------------------------------------------------------------
(* ADCPi (hardware_libraries.py): the two MCP3424 chips of one board.  A     *)
(* call of set_pga, set_bit_rate or set_conversion_mode is one step.  A call *)
(* of read_raw or read_voltage starts with one step and then takes one step  *)
(* for every turn of its polling loop: each turn reads four bytes from the   *)
(* chip, and the clock has advanced by the time of the bus transfer and of   *)
(* the sleep of the turn before.                                             *)

\* a & b, bit by bit from the lowest
BitAndOf[a \in Nat, b \in Nat] ==
    IF a = 0 \/ b = 0 THEN 0 ELSE (a % 2) * (b % 2) + 2 * BitAndOf[a \div 2, b \div 2]

BitAnd(a, b) == BitAndOf[a, b]

\* a | b: the bits of a and those of b, the common ones counted once
BitOrOf[a \in Nat, b \in Nat] == a + b - BitAndOf[a, b]

BitOr(a, b) == BitOrOf[a, b]

\* a & ~(1 << bit)
BitClear(a, bit) == a - checkbit(a, bit) * Pow2(bit)

\* ADCPi.__updatebyte(byte, mask, value)
adc_updatebyte(byte, mask, value) == BitOr(BitAnd(byte, mask), value)

\* a call starts: nothing is left of the locals and of the result of the call
\* before it
adc_call(a, op, arg) ==
    [a EXCEPT !.op = op, !.arg = arg, !.at = "returned", !.error = "", !.written = <<>>,
              !.config = 0, !.address = 0, !.start = 0, !.time = 0, !.timeout_time = 0,
              !.polls = 0, !.adcreading = <<0, 0, 0, 0>>, !.raw = 0, !.voltage = 0]

adc_raise(a, error) == [a EXCEPT !.at = "raised", !.error = error]

\* the two write_byte that end set_pga and set_bit_rate
adc_write_confs(a) ==
    [a EXCEPT !.written = <<<<a.adc1_address, a.adc1_conf>>, <<a.adc2_address, a.adc2_conf>>>>]

\* ADCPi.__setchannel(channel), for a channel in 1..8
setchannel(a, channel) ==
    IF channel >= 1 /\ channel <= 4
    THEN IF channel # a.adc1_channel
         THEN [a EXCEPT !.adc1_channel = channel,
                        !.adc1_conf = adc_updatebyte(a.adc1_conf, 159, (channel - 1) * 32)]
         ELSE a
    ELSE IF channel # a.adc2_channel
         THEN [a EXCEPT !.adc2_channel = channel,
                        !.adc2_conf = adc_updatebyte(a.adc2_conf, 159, (channel - 5) * 32)]
         ELSE a

\* the bits 0-1 of the configuration byte and the factor (in halves) of each gain
pga_bits(gain) == CASE gain = 1 -> 0 [] gain = 2 -> 1 [] gain = 4 -> 2 [] gain = 8 -> 3
pga_factor(gain) == gain

set_pga(a, gain) ==
    IF gain \in {1, 2, 4, 8}
    THEN adc_write_confs(
             [adc_call(a, "set_pga", gain) EXCEPT
                 !.adc1_conf = adc_updatebyte(a.adc1_conf, 252, pga_bits(gain)),
                 !.adc2_conf = adc_updatebyte(a.adc2_conf, 252, pga_bits(gain)),
                 !.pga = pga_factor(gain)])
    ELSE adc_raise(adc_call(a, "set_pga", gain), "set_pga: gain out of range")

\* the bits 2-3 of the configuration byte and the lsb of each resolution
rate_bits(rate) == CASE rate = 12 -> 0 [] rate = 14 -> 4 [] rate = 16 -> 8 [] rate = 18 -> 12
rate_lsb(rate) == CASE rate = 12 -> 64000 [] rate = 14 -> 16000 [] rate = 16 -> 4000 [] rate = 18 -> 1000

\* a set_bit_rate that stores the rate before it looks at it
set_bit_rate_unchecked(a, rate) ==
    IF rate \in {12, 14, 16, 18}
    THEN adc_write_confs(
             [adc_call(a, "set_bit_rate", rate) EXCEPT
                 !.adc1_conf = adc_updatebyte(a.adc1_conf, 243, rate_bits(rate)),
                 !.adc2_conf = adc_updatebyte(a.adc2_conf, 243, rate_bits(rate)),
                 !.bitrate = rate,
                 !.lsb = rate_lsb(rate)])
    ELSE adc_raise([adc_call(a, "set_bit_rate", rate) EXCEPT !.bitrate = rate],
                   "set_bit_rate: rate out of range")

set_bit_rate(a, rate) ==
    IF rate \in {12, 14, 16, 18}
    THEN adc_write_confs(
             [adc_call(a, "set_bit_rate", rate) EXCEPT
                 !.adc1_conf = adc_updatebyte(a.adc1_conf, 243, rate_bits(rate)),
                 !.adc2_conf = adc_updatebyte(a.adc2_conf, 243, rate_bits(rate)),
                 !.bitrate = rate,
                 !.lsb = rate_lsb(rate)])
    ELSE adc_raise(adc_call(a, "set_bit_rate", rate), "set_bit_rate: rate out of range")

\* set_conversion_mode(mode): the byte of the second chip is made from the byte of
\* the first one (lines 1234 and 1239)
set_conversion_mode(a, mode) ==
    IF mode \in {0, 1}
    THEN [adc_call(a, "set_conversion_mode", mode) EXCEPT
             !.adc1_conf = adc_updatebyte(a.adc1_conf, 239, mode * 16),
             !.adc2_conf = adc_updatebyte(a.adc1_conf, 239, mode * 16),
             !.conversionmode = mode]
    ELSE adc_raise(adc_call(a, "set_conversion_mode", mode),
                   "set_conversion_mode: mode out of range")

\* seconds_per_sample of read_raw, in units of 10 microseconds
seconds_per_sample(bitrate) ==
    CASE bitrate = 18 -> 26666 [] bitrate = 16 -> 6666 [] bitrate = 14 -> 1666 [] bitrate = 12 -> 416

\* read_raw up to its polling loop, called at the time now
read_raw_start(a, op, channel, now) ==
    IF channel < 1 \/ channel > 8
    THEN adc_raise(adc_call(a, op, channel), op \o ": channel out of range (1 to 8 allowed)")
    ELSE LET b == setchannel(adc_call(a, op, channel), channel)
             config == IF channel <= 4 THEN b.adc1_conf ELSE b.adc2_conf
             address == IF channel <= 4 THEN b.adc1_address ELSE b.adc2_address
         IN  [b EXCEPT
                 !.at = "poll",
                 !.written = IF b.conversionmode = 0
                             THEN <<<<address, BitOr(config, 128)>>>>
                             ELSE <<>>,
                 !.config = IF b.conversionmode = 0 THEN BitClear(BitOr(config, 128), 7)
                                                    ELSE config,
                 !.address = address,
                 !.start = now,
                 !.time = now,
                 !.timeout_time = now + 100 * seconds_per_sample(b.bitrate),
                 !.polls = 0]

\* the command byte of a response
cmdbyte(bitrate, adcreading) == IF bitrate = 18 THEN adcreading[4] ELSE adcreading[3]

\* (cmdbyte & (1 << 7)) == 0
ready(byte) == BitAnd(byte, 128) = 0

\* a timeout that never comes
timed_out_never(now, timeout_time) == FALSE

\* time.time() > timeout_time
timed_out(now, timeout_time) == now > timeout_time

\* a sample put together without masking the high byte
sample_unmasked(bitrate, adcreading) ==
    LET high == adcreading[1]
        mid == adcreading[2]
        low == adcreading[3]
    IN  CASE bitrate = 18 -> BitOr(BitOr(high * Pow2(16), mid * Pow2(8)), low)
          [] bitrate = 16 -> BitOr(high * Pow2(8), mid)
          [] bitrate = 14 -> BitOr(high * Pow2(8), mid)
          [] bitrate = 12 -> BitOr(high * Pow2(8), mid)

\* the bytes of a response combined in the correct order, before the sign bit is
\* taken out
sample(bitrate, adcreading) ==
    LET high == adcreading[1]
        mid == adcreading[2]
        low == adcreading[3]
    IN  CASE bitrate = 18 -> BitOr(BitOr(BitAnd(high, 3) * Pow2(16), mid * Pow2(8)), low)
          [] bitrate = 16 -> BitOr(high * Pow2(8), mid)
          [] bitrate = 14 -> BitOr(BitAnd(high, 63) * Pow2(8), mid)
          [] bitrate = 12 -> BitOr(BitAnd(high, 15) * Pow2(8), mid)

\* bool(raw & (1 << (bitrate - 1)))
signbit(bitrate, raw) == checkbit(raw, bitrate - 1) = 1

\* a voltage that does not look at the sign
voltage_signed(raw, sign, lsb, pga) == raw * lsb * (8 \div pga)

\* read_voltage, from what its read_raw gave: raw * (lsb / pga) * 2.471, in units of
\* 2.471 / 1024 microvolt
voltage(raw, sign, lsb, pga) == IF ~sign THEN raw * lsb * (8 \div pga) ELSE 0

\* the end of read_raw on the response adcreading, and of the read_voltage that
\* called it
read_raw_end(a, adcreading) ==
    LET raw == sample(a.bitrate, adcreading)
        sign == signbit(a.bitrate, raw)
        magnitude == BitClear(raw, a.bitrate - 1)
    IN  [a EXCEPT
            !.at = "returned",
            !.adcreading = adcreading,
            !.signbit = sign,
            !.raw = magnitude,
            !.voltage = IF a.op = "read_voltage" THEN voltage(magnitude, sign, a.lsb, a.pga)
                                                 ELSE a.voltage]

\* one turn of the polling loop, which ends at the time now
read_raw_poll(a, adcreading, now) ==
    IF ready(cmdbyte(a.bitrate, adcreading))
    THEN read_raw_end([a EXCEPT !.time = now], adcreading)
    ELSE IF timed_out(now, a.timeout_time)
    THEN [adc_raise(a, "read_raw: channel conversion timed out") EXCEPT
             !.time = now, !.adcreading = adcreading]
    ELSE [a EXCEPT !.time = now, !.adcreading = adcreading, !.polls = a.polls + 1]

\* the arguments of the calls: the legal ones, and one or two that are not
Gains == {1, 2, 3, 4, 8}
Rates == {12, 13, 14, 16, 18}
Modes == {0, 1, 2}
Channels == {0, 1, 3, 6, 8, 9}
StartTimes == {7}

\* the bytes a chip answers with.  The third one is the command byte below 18
\* bits, the fourth one at 18 bits.
Responses ==
    {<<high, mid, low, cmd>> :
        high \in {42, 213}, mid \in {165}, low \in {90, 156}, cmd \in {28, 156}}

\* the answer of a chip whose conversion is over when it is first asked
ReadyResponses == {<<213, 165, 28, 28>>}

\* the time one turn of the loop takes: the sleep and a short transfer, or a bus
\* that stalls for the timeout of the lowest or of the highest resolution
PollTimes == {1, 100 * 26666}

\* ADCPi(0x68, 0x69, rate): the constructor ends with set_bit_rate(rate)
InitADC ==
    /\ AtRest
    /\ lookup = NoLookup
    /\ \E rate \in {12, 14, 16, 18} : adc = set_bit_rate(NoADC, rate)
    /\ iopi = NoIOPi

\* an ADCPi constructed and set up as Interface.__init__ does, set_pga(1) and
\* set_bit_rate(rate), at any resolution
InitPoll ==
    /\ AtRest
    /\ lookup = NoLookup
    /\ \E rate \in {12, 14, 16, 18} :
          adc = set_bit_rate(set_pga(set_bit_rate(NoADC, rate), 1), rate)
    /\ iopi = NoIOPi

\* an ADCPi constructed and then set up with any gain, resolution and mode
InitRead ==
    /\ AtRest
    /\ lookup = NoLookup
    /\ \E rate \in {12, 14, 16, 18}, gain \in {1, 2, 4, 8}, mode \in {0, 1} :
          adc = set_conversion_mode(set_bit_rate(set_pga(set_bit_rate(NoADC, rate), gain), rate),
                                    mode)
    /\ iopi = NoIOPi

ADCIdle == adc.at # "poll"

SetPGA ==
    /\ ADCIdle
    /\ \E gain \in Gains : adc' = set_pga(adc, gain)
    /\ StayAtRest
    /\ UNCHANGED <<lookup, iopi>>

SetBitRate ==
    /\ ADCIdle
    /\ \E rate \in Rates : adc' = set_bit_rate(adc, rate)
    /\ StayAtRest
    /\ UNCHANGED <<lookup, iopi>>

SetConversionMode ==
    /\ ADCIdle
    /\ \E mode \in Modes : adc' = set_conversion_mode(adc, mode)
    /\ StayAtRest
    /\ UNCHANGED <<lookup, iopi>>

ReadRaw ==
    /\ ADCIdle
    /\ \E channel \in Channels, now \in StartTimes :
          adc' = read_raw_start(adc, "read_raw", channel, now)
    /\ StayAtRest
    /\ UNCHANGED <<lookup, iopi>>

ReadVoltage ==
    /\ ADCIdle
    /\ \E channel \in Channels, now \in StartTimes :
          adc' = read_raw_start(adc, "read_voltage", channel, now)
    /\ StayAtRest
    /\ UNCHANGED <<lookup, iopi>>

\* a turn of the loop.  The turns that only sleep are counted up to MaxPolls; after
\* that the bus stalls.
Poll ==
    /\ adc.at = "poll"
    /\ \E adcreading \in Responses, dt \in PollTimes :
          /\ dt = 1 => adc.polls < MaxPolls
          /\ adc' = read_raw_poll(adc, adcreading, adc.time + dt)
    /\ StayAtRest
    /\ UNCHANGED <<lookup, iopi>>

\* the one turn of the loop when the chip answers at once
Answer ==
    /\ adc.at = "poll"
    /\ \E adcreading \in ReadyResponses : adc' = read_raw_poll(adc, adcreading, adc.time + 1)
    /\ StayAtRest
    /\ UNCHANGED <<lookup, iopi>>

\* the calls in any order, on chips that answer at once
NextADC ==
    \/ SetPGA
    \/ SetBitRate
    \/ SetConversionMode
    \/ ReadRaw
    \/ ReadVoltage
    \/ Answer

SpecADC == InitADC /\ [][NextADC]_vars

\* reads of an ADCPi that was set up, on chips that answer anything at any time
NextRead ==
    \/ ReadRaw
    \/ ReadVoltage
    \/ Poll

SpecRead == InitRead /\ [][NextRead]_vars

\* the thread that called read_raw keeps running
SpecPoll == InitPoll /\ [][NextRead]_vars /\ WF_vars(Poll)

----------------------------------------------------------------------------
(* IOPi (hardware_libraries.py) on its own: the constructor, set_pin_direction, *)
(* write_pin and read_pin called in any order with legal and illegal           *)
(* arguments, on a chip whose ports hold what an earlier program left.         *)

iopi_call(io, op, pin, value) ==
    [io EXCEPT !.op = op, !.pin = pin, !.value = value, !.at = "returned", !.error = "",
               !.written = <<>>, !.result = 0, !.address = 0]

iopi_raise(io, error) == [io EXCEPT !.at = "raised", !.error = error]

\* IOPi.__init__(address, initialise): IOCON is written, then the direction, the
\* pull-ups and the polarity of the sixteen pins
iopi_init(io, address, initialise) ==
    IF address < 32 \/ address > 39
    THEN iopi_raise([iopi_call(io, "__init__", 0, 0) EXCEPT !.address = address],
                    "__init__ i2c address out of range: 0x20 to 0x27")
    ELSE [iopi_call(io, "__init__", 0, 0) EXCEPT
             !.address = address,
             !.constructed = TRUE,
             !.ioaddress = address,
             !.iodir = IF initialise THEN [A |-> 255, B |-> 255] ELSE io.iodir,
             !.written = IF initialise
                         THEN <<"IOCON", "IODIRA", "IODIRB", "GPPUA", "GPPUB", "IPOLA", "IPOLB">>
                         ELSE <<"IOCON">>]

\* a __set_pin that looks at the value only after it has written the register
checked_set_pin_late(io, op, pin, value, register) ==
    IF ~(pin >= 1 /\ pin <= 16)
    THEN iopi_raise(iopi_call(io, op, pin, value), "pin out of range: 1 to 16")
    ELSE LET done == [iopi_call(io, op, pin, value) EXCEPT
                         ![register] = set_pin(io[register], pin, IF value = 0 THEN 0 ELSE 1),
                         !.written = <<register \o (IF pin <= 8 THEN "A" ELSE "B")>>]
         IN  IF value < 0 \/ value > 1 THEN iopi_raise(done, "value out of range: 0 or 1")
                                       ELSE done

\* IOPi.__set_pin(pin, value, a_register, b_register) with its tests of the pin and
\* of the value; register is the pair of registers, gpio or iodir
checked_set_pin(io, op, pin, value, register) ==
    IF ~(pin >= 1 /\ pin <= 16)
    THEN iopi_raise(iopi_call(io, op, pin, value), "pin out of range: 1 to 16")
    ELSE IF value < 0 \/ value > 1
    THEN iopi_raise(iopi_call(io, op, pin, value), "value out of range: 0 or 1")
    ELSE [iopi_call(io, op, pin, value) EXCEPT
             ![register] = set_pin(io[register], pin, value),
             !.written = <<register \o (IF pin <= 8 THEN "A" ELSE "B")>>]

\* IOPi.__get_pin(pin, a_register, b_register) with its test of the pin
checked_get_pin(io, op, pin, register) ==
    IF ~(pin >= 1 /\ pin <= 16)
    THEN iopi_raise(iopi_call(io, op, pin, 0), "pin out of range: 1 to 16")
    ELSE [iopi_call(io, op, pin, 0) EXCEPT !.result = get_pin(io[register], pin)]

\* the arguments: pins of both ports, and the first values outside the ranges
Addresses == {31, 32, 40}
Pins == {0, 1, 9, 16, 17}
Values == {-1, 0, 1, 2}

\* what port A holds at the start; port B holds the other bits
PortValues == {0, 90, 165}

InitIOPi ==
    /\ AtRest
    /\ lookup = NoLookup
    /\ adc = NoADC
    /\ \E a \in PortValues : iopi = [NoIOPi EXCEPT !.gpio = [A |-> a, B |-> 255 - a]]

NewIOPi ==
    /\ ~iopi.constructed
    /\ \E address \in Addresses, initialise \in BOOLEAN :
          iopi' = iopi_init(iopi, address, initialise)
    /\ StayAtRest
    /\ UNCHANGED <<lookup, adc>>

SetPinDirection ==
    /\ iopi.constructed
    /\ \E pin \in Pins, value \in Values :
          iopi' = checked_set_pin(iopi, "set_pin_direction", pin, value, "iodir")
    /\ StayAtRest
    /\ UNCHANGED <<lookup, adc>>

WritePin ==
    /\ iopi.constructed
    /\ \E pin \in Pins, value \in Values :
          iopi' = checked_set_pin(iopi, "write_pin", pin, value, "gpio")
    /\ StayAtRest
    /\ UNCHANGED <<lookup, adc>>

ReadPin ==
    /\ iopi.constructed
    /\ \E pin \in Pins : iopi' = checked_get_pin(iopi, "read_pin", pin, "gpio")
    /\ StayAtRest
    /\ UNCHANGED <<lookup, adc>>

NextIOPi ==
    \/ NewIOPi
    \/ SetPinDirection
    \/ WritePin
    \/ ReadPin

SpecIOPi == InitIOPi /\ [][NextIOPi]_vars

----------------------------------------------------------------------------
(* Teardown: Interface.turn_off, called by the public method and by the     *)
(* destructor __del__, and the switches of the light and the waste pump.    *)
(* test_bench.py holds a second Interface class, for the test bench: one    *)
(* expander with five pumps on its pins 1..5, the same light and waste pump *)
(* pins, and its own turn_off.  Its states have a pc that starts by bench.  *)

Level(state) == IF state THEN 1 ELSE 0

\* switch_light, switch_waste_pump, switch_waste_pump_direction of interface.py
SwitchLight(state) ==
    /\ pc = "idle"
    /\ lights' = Level(state)
    /\ call' = [NoCall EXCEPT !.op = "switch_light"]
    /\ UNCHANGED <<pc, muxsel, ad7150, iobus, waste_pump, waste_pump_direction,
                   asynctasks, clock, m, libvars>>

SwitchWastePump(state) ==
    /\ pc = "idle"
    /\ waste_pump' = Level(state)
    /\ call' = [NoCall EXCEPT !.op = "switch_waste_pump"]
    /\ UNCHANGED <<pc, muxsel, ad7150, iobus, lights, waste_pump_direction,
                   asynctasks, clock, m, libvars>>

SwitchWastePumpDirection(state) ==
    /\ pc = "idle"
    /\ waste_pump_direction' = Level(state)
    /\ call' = [NoCall EXCEPT !.op = "switch_waste_pump_direction"]
    /\ UNCHANGED <<pc, muxsel, ad7150, iobus, lights, waste_pump, asynctasks, clock, m, libvars>>

\* Interface.turn_off of interface.py
turn_off ==
    /\ iobus' = turn_off_pumps(iobus)
    /\ lights' = Level(FALSE)
    /\ waste_pump' = Level(FALSE)
    /\ waste_pump_direction' = Level(FALSE)

\* a call of turn_off()
TurnOff ==
    /\ pc = "idle"
    /\ turn_off
    /\ call' = [NoCall EXCEPT !.op = "turn_off"]
    /\ UNCHANGED <<pc, muxsel, ad7150, asynctasks, clock, m, libvars>>

\* __del__: the Interface object is deleted, at the end of the script or after the
\* exception that ended it
Del ==
    /\ pc \in {"idle", "aborted"}
    /\ turn_off
    /\ pc' = "deleted"
    /\ call' = [NoCall EXCEPT !.op = "__del__"]
    /\ UNCHANGED <<muxsel, ad7150, asynctasks, clock, m, libvars>>

BenchPumps == 5

\* test_bench.py: set_hardware_connections has written 0 to the 16 pins of the
\* expander and set the light, the waste pump and its direction low
BenchInit ==
    /\ pc = "bench_ctor_turn_off"
    /\ call = [NoCall EXCEPT !.op = "__init__"]
    /\ muxsel = [i \in muxs |-> 0]
    /\ ad7150 = [s \in muxs \X (1..8) |-> [setup |-> 0, conf |-> 0]]
    /\ iobus = [n \in 1..NbIOPi |-> [A |-> 0, B |-> 0]]
    /\ lights = 0
    /\ waste_pump = 0
    /\ waste_pump_direction = 0
    /\ asynctasks = <<>>
    /\ clock = 0
    /\ m = NoOperation
    /\ lookup = NoLookup
    /\ adc = NoADC
    /\ iopi = NoIOPi

\* Interface.turn_off of test_bench.py
bench_turn_off ==
    /\ iobus' = [iobus EXCEPT ![1] =
                    LET RECURSIVE off(_, _)
                        off(regs, pin) == IF pin > BenchPumps THEN regs
                                          ELSE off(set_pin(regs, pin, 0), pin + 1)
                    IN off(iobus[1], 1)]
    /\ lights' = Level(FALSE)
    /\ waste_pump' = Level(FALSE)
    /\ waste_pump_direction' = Level(TRUE)

\* the end of Interface.__init__ of test_bench.py: load_calibration, self.turn_off()
BenchCtorTurnOff ==
    /\ pc = "bench_ctor_turn_off"
    /\ bench_turn_off
    /\ pc' = "bench_idle"
    /\ call' = NoCall
    /\ UNCHANGED <<muxsel, ad7150, asynctasks, clock, m, libvars>>

BenchSwitchLight(state) ==
    /\ pc = "bench_idle"
    /\ lights' = Level(state)
    /\ call' = [NoCall EXCEPT !.op = "switch_light"]
    /\ UNCHANGED <<pc, muxsel, ad7150, iobus, waste_pump, waste_pump_direction,
                   asynctasks, clock, m, libvars>>

BenchSwitchWastePump(state) ==
    /\ pc = "bench_idle"
    /\ waste_pump' = Level(state)
    /\ call' = [NoCall EXCEPT !.op = "switch_waste_pump"]
    /\ UNCHANGED <<pc, muxsel, ad7150, iobus, lights, waste_pump_direction,
                   asynctasks, clock, m, libvars>>

BenchSwitchWastePumpDirection(state) ==
    /\ pc = "bench_idle"
    /\ waste_pump_direction' = Level(state)
    /\ call' = [NoCall EXCEPT !.op = "switch_waste_pump_direction"]
    /\ UNCHANGED <<pc, muxsel, ad7150, iobus, lights, waste_pump, asynctasks, clock, m, libvars>>

BenchTurnOff ==
    /\ pc = "bench_idle"
    /\ bench_turn_off
    /\ call' = [NoCall EXCEPT !.op = "turn_off"]
    /\ UNCHANGED <<pc, muxsel, ad7150, asynctasks, clock, m, libvars>>

BenchDel ==
    /\ pc = "bench_idle"
    /\ bench_turn_off
    /\ pc' = "bench_deleted"
    /\ call' = [NoCall EXCEPT !.op = "__del__"]
    /\ UNCHANGED <<muxsel, ad7150, asynctasks, clock, m, libvars>>

Switches ==
    \E state \in BOOLEAN :
        \/ SwitchLight(state)
        \/ SwitchWastePump(state)
        \/ SwitchWastePumpDirection(state)

Bench ==
    \/ BenchCtorTurnOff
    \/ \E state \in BOOLEAN :
          \/ BenchSwitchLight(state)
          \/ BenchSwitchWastePump(state)
          \/ BenchSwitchWastePumpDirection(state)
    \/ BenchTurnOff
    \/ BenchDel

\* an Interface of either file is made, used and deleted; a batch with an activation
\* for pump 16, which does not exist, fails and leaves the pins of the others high
NextOff ==
    \/ Construct
    \/ \E pump \in {1, 16} : RunPump(pump, 1, FALSE)
    \/ ExecutePumping
    \/ EventLoop
    \/ ExecuteRaise
    \/ Return
    \/ Switches
    \/ TurnOff
    \/ Del
    \/ Bench

SpecOff == (Init \/ BenchInit) /\ [][NextOff]_vars

----------------------------------------------------------------------------
(* A script that constructs a Morbidostat and calls run.  When run has      *)
(* returned or raised, the Interface may be deleted: __del__ runs if and    *)
(* when the interpreter collects the object.                                *)

Exit ==
    /\ m.op = "run"
    /\ pc = "aborted" \/ m.todo = <<>>
    /\ Del

NextRun ==
    \/ Construct
    \/ OperateRun
    \/ RunStep
    \/ CycleStep
    \/ LsReset \/ LsSelect \/ LsRead
    \/ EventLoop
    \/ WastePump
    \/ Return
    \/ Exit

SpecRun == Init /\ [][NextRun]_vars

\* run called with a tot_time of a few cycles: ii stays below 10 and
\* top_low_cultures is not called
OperateShortRun ==
    /\ m.op = "none"
    /\ \E tot_time \in {1, MaxShortTime} :
          Start([op |-> "run", todo |-> run(1, tot_time), volumes |-> <<>>])

\* the statements of run and of what it calls
RunThread ==
    \/ RunStep
    \/ MeasureOD
    \/ MeasureVolume
    \/ AppendRow
    \/ MaintainCulture
    \/ InjectBacteria
    \/ ExecuteQueued
    \/ WaitMixing
    \/ FeedPhages
    \/ RemoveWasteOfCycle
    \/ LsReset \/ LsSelect \/ LsRead
    \/ EventLoop
    \/ WastePump
    \/ Return

NextShortRun ==
    \/ Construct
    \/ OperateShortRun
    \/ RunThread
    \/ Exit

\* every statement of run is executed in its turn: the main thread is never
\* suspended for ever, sleeps end and the event loop goes on
SpecRunFair == Init /\ [][NextShortRun]_vars /\ WF_vars(RunThread)

----------------------------------------------------------------------------
(* Level-sensor claims.                                                     *)

\* C1: in every reachable state, during the construction and across any sequence
\* of level measurements, at most one of the two multiplexers has a non-zero
\* channel-select byte.
C1_AtMostOneMuxSelected == ~(muxsel[1] # 0 /\ muxsel[2] # 0)

\* a measurement of a vial of mux 0x70 has reset mux 0x70 and finds the channel
\* of the vial measured before still selected on mux 0x71
C1_Witness ==
    /\ pc = "ls_reset"
    /\ call.mux = 2
    /\ LS_to_mux(call.vial)[1] = 1
    /\ muxsel[2] # 0

\* C2: every register read of the capacitance chip made by measure_LS_capacitance
\* happens while the multiplexer owning the vial has exactly the bit of the vial's
\* channel selected and the other multiplexer has selection 0.
C2_ReadUnderOwnChannel ==
    pc = "ls_read" =>
        /\ muxsel[LS[call.vial].mux] = Pow2(LS[call.vial].channel - 1)
        /\ \A i \in muxs : i # LS[call.vial].mux => muxsel[i] = 0

\* the third register of the last read of a two-sample measurement of vial 15
C2_Witness ==
    /\ pc = "ls_read"
    /\ call.vial = 15
    /\ call.ii = 1
    /\ call.reg = 3

\* C3: when measure_LS_capacitance has returned, and whenever no level measurement
\* is in progress, both multiplexers have selection 0.
C3_DeselectedAfterMeasure ==
    pc \in {"ret", "idle"} => \A i \in muxs : muxsel[i] = 0

----------------------------------------------------------------------------
(* Scheduler and waste-pump claims.                                         *)

DistinctPumps ==
    \A i, j \in DOMAIN asynctasks : i # j => asynctasks[i].pump # asynctasks[j].pump

WastePcs == {"waste_direction", "waste_on", "waste_sleep", "waste_off", "waste_restore"}

\* C4: execute_pumping returns only after every pending activation has gone through
\* pin high, the wait for its duration, pin low, in that order; when it returns every
\* pump pin it drove is low and the pending set is empty.  With an empty pending set
\* it returns without changing any pin.
C4_ExecuteRunsEveryActivation ==
    /\ [][(pc = "exec" /\ pc' = "ret") =>
            /\ \A i \in DOMAIN asynctasks :
                  /\ asynctasks[i].st = "done"
                  /\ asynctasks[i].hi >= 0
                  /\ asynctasks[i].lo >= asynctasks[i].hi + asynctasks[i].dt
                  /\ PumpPin(iobus', asynctasks[i].pump) = 0
            /\ asynctasks' = <<>>]_vars
    /\ [][((pc = "exec" \/ pc' = "exec") /\ asynctasks = <<>>) =>
            /\ iobus' = iobus
            /\ pc' \in {"exec", "ret"}]_vars

\* execute_pumping has returned from a batch whose longest activation took two ticks
C4_Witness ==
    /\ pc = "ret"
    /\ call.op = "execute_pumping"
    /\ clock = 2
    /\ asynctasks = <<>>
    /\ \A p \in available_pumps : PumpPin(iobus, p) = 0

\* C5: under a deterministic clock, pending activations on distinct pumps all start
\* at the instant execute_pumping starts the loop, and the last one completes after
\* max(di) ticks, not after their sum.
C5_BatchTakesMaxDuration ==
    (pc = "exec" /\ DistinctPumps) =>
        /\ \A i \in DOMAIN asynctasks :
              asynctasks[i].st \in {"sleep", "done"} => asynctasks[i].hi = 0
        /\ (asynctasks # <<>> /\ gather_done) =>
              clock = SetMax({asynctasks[i].dt : i \in DOMAIN asynctasks})

\* two activations of 1 and 2 ticks on pumps 1 and 9 have both completed after 2
\* ticks
C5_Witness ==
    /\ pc = "exec"
    /\ Len(asynctasks) = 2
    /\ {asynctasks[i].pump : i \in DOMAIN asynctasks} = {1, 9}
    /\ {asynctasks[i].dt : i \in DOMAIN asynctasks} = {1, 2}
    /\ gather_done
    /\ clock = 2

\* C6: for every interleaving of concurrently executing activations on distinct
\* pumps, each pump's pin is high exactly from the start of its own activation to the
\* end of its own duration; no activation sets or clears another pump's bit.
C6_OwnPinOnly ==
    (pc = "exec" /\ DistinctPumps) =>
        /\ \A p \in available_pumps :
              PumpPin(iobus, p) = 1 <=>
                  \E i \in DOMAIN asynctasks :
                      asynctasks[i].pump = p /\ asynctasks[i].st = "sleep"
        /\ \A i \in DOMAIN asynctasks :
              asynctasks[i].st = "done" =>
                  asynctasks[i].lo = asynctasks[i].hi + asynctasks[i].dt

\* pumps 1 and 2 share port A: the activation of pump 1 has ended and cleared bit 0
\* while pump 2 is still running with bit 1 set
C6_Witness ==
    /\ pc = "exec"
    /\ DistinctPumps
    /\ \E i, j \in DOMAIN asynctasks :
          /\ asynctasks[i].pump = 1 /\ asynctasks[i].st = "done"
          /\ asynctasks[j].pump = 2 /\ asynctasks[j].st = "sleep"
    /\ iobus[1].A = 2

InjectStep ==
    /\ pc = "idle"
    /\ call'.op = "inject_volume"
    /\ call'.volume >= 0
    /\ pc' # "aborted"

\* the activation C9 expects inject_volume to queue
InjectExpected(c) == NewTask(c.pump, Min(c.volume, c.max_volume) \div PumpRate(c.pump))

\* C9 as stated: inject_volume with volume >= 0 queues an activation whose duration
\* is min(volume, max_volume) / rate(pump).
C9_InjectQueuesClamped ==
    [][InjectStep => asynctasks' = Append(asynctasks, InjectExpected(call'))]_vars

\* C9 as amended: inject_volume with volume >= 0 queues an activation of duration
\* min(volume, max_volume) / rate(pump) when min(volume, max_volume) > 0, and queues
\* nothing when min(volume, max_volume) = 0.
C9_InjectQueuesClampedPositive ==
    [][InjectStep =>
          IF Min(call'.volume, call'.max_volume) > 0
          THEN asynctasks' = Append(asynctasks, InjectExpected(call'))
          ELSE asynctasks' = asynctasks]_vars

\* an injection of 2 mL with max_volume 1 mL on pump 2 has been queued as 1 mL
C9_Witness ==
    /\ pc = "ret"
    /\ call.op = "inject_volume"
    /\ call.pump = 2
    /\ call.volume = 2000
    /\ call.max_volume = 1000
    /\ asynctasks # <<>>
    /\ asynctasks[Len(asynctasks)] = NewTask(2, 2)

\* C10: when inject_volume(..., run=True) or run_pump(..., run=True) returns, for
\* every volume or duration >= 0 and whatever was queued before, the pending set is
\* empty and every pump pin is low.
C10_RunExecutesBeforeReturn ==
    (pc = "ret" /\ call.op \in {"inject_volume", "run_pump"} /\ call.run) =>
        /\ asynctasks = <<>>
        /\ \A p \in available_pumps : PumpPin(iobus, p) = 0

\* C10 as amended: when inject_volume(..., run=True) or run_pump(..., run=True)
\* returns from a call whose duration is > 0, whatever was queued before, the pending
\* set is empty and every pump pin is low; with a duration of 0 the call returns
\* without executing, and leaves the pending set and the pins as they were.
C10_RunExecutesPositiveDuration ==
    /\ [](( /\ pc = "ret"
            /\ call.op \in {"inject_volume", "run_pump"}
            /\ call.run
            /\ call.dt > 0) =>
              /\ asynctasks = <<>>
              /\ \A p \in available_pumps : PumpPin(iobus, p) = 0)
    /\ [][( /\ pc = "idle"
            /\ pc' = "ret"
            /\ call'.op \in {"inject_volume", "run_pump"}
            /\ call'.run) =>
              /\ call'.dt = 0
              /\ asynctasks' = asynctasks
              /\ iobus' = iobus]_vars

\* run_pump(pump, 1, run=True) has returned after the batch it started, which also
\* held an activation of two ticks queued before
C10_Witness ==
    /\ pc = "ret"
    /\ call.op = "run_pump"
    /\ call.run
    /\ call.dt = 1
    /\ clock = 2
    /\ asynctasks = <<>>

----------------------------------------------------------------------------
(* Failure, control-loop and teardown claims.                               *)

PumpOps == {"inject_volume", "run_pump"}
WasteOps == {"remove_waste", "run_waste_pump"}

\* C11: inject_volume, run_pump, remove_waste and run_waste_pump reject a negative
\* volume or duration and an unknown pump id with an error raised by the call itself,
\* before anything is queued or actuated: the call ends in the error with the pending
\* set and every pin unchanged.
C11_InvalidCallRejectedAtOnce ==
    [][( /\ pc = "idle"
         /\ call'.op \in PumpOps \cup WasteOps
         /\ \/ call'.volume < 0
            \/ call'.dt < 0
            \/ call'.op \in PumpOps /\ call'.pump \notin available_pumps) =>
           /\ pc' = "aborted"
           /\ asynctasks' = asynctasks
           /\ iobus' = iobus
           /\ <<lights, waste_pump, waste_pump_direction>>' =
                 <<lights, waste_pump, waste_pump_direction>>]_vars

\* a step of maintain_culture that returns
MaintainStep == Reached("maintain_culture") /\ pc' # "aborted" /\ m'.todo = Tail(m.todo)

\* the pump set_pumps gives the culture as its media pump
MediaPumpOf(culture) ==
    morbidostat_pumps[CHOOSE i \in DOMAIN morbidostat_pumps :
                         /\ morbidostat_pumps[i].input[1] = "media"
                         /\ morbidostat_pumps[i].output = <<"culture", culture>>].number

\* (OD / target - 1) x culture_volume
DilutionVolume(od, target) == (((od - target) * (culture_volume \div 1000)) \div target) * 1000

Last(s) == s[Len(s)]

Left(ins) == {i \in DOMAIN m.todo : m.todo[i].ins = ins}

MediaPumps == {MediaPumpOf(culture) : culture \in 1..Len(cultures)}

\* the cultures of the Dilute phase are still being measured
Diluting == m.op \in {"maintain_cultures", "cycle"} /\ Left("maintain_culture") # {}

\* the execute_pumping of the Dilute phase is the next call
DiluteExecuteNext ==
    /\ m.op \in {"maintain_cultures", "cycle"}
    /\ pc # "aborted"
    /\ m.todo # <<>> /\ Next_ins.ins = "execute_pumping"
    /\ m.op = "cycle" => Left("feed_phages") # {}

\* the execute_pumping of the Dilute phase is running or returns
DiluteExecuting ==
    /\ m.op \in {"maintain_cultures", "cycle"}
    /\ pc \in {"exec", "ret"}
    /\ Left("maintain_culture") = {} /\ Left("execute_pumping") = {}
    /\ m.op = "cycle" => Left("feed_phages") # {}

\* the activations the decisions volumes_added stand for, in the order of the cultures
RECURSIVE Decided(_, _)
Decided(volumes, culture) ==
    IF culture > Len(volumes) THEN <<>>
    ELSE (IF volumes[culture] > 0
          THEN <<NewTask(MediaPumpOf(culture),
                         Min(volumes[culture], mL(10)) \div PumpRate(MediaPumpOf(culture)))>>
          ELSE <<>>) \o Decided(volumes, culture + 1)

\* C13: in the Dilute phase (maintain_cultures) no media pump pin goes high until
\* every culture has been measured and its injection decision queued: queuing an
\* activation changes no pin, and all culture injections of the cycle run in exactly
\* one execute_pumping at the end of the phase; no media pump runs again in the cycle.
C13_DiluteQueuesThenExecutesOnce ==
    /\ [](Diluting =>
            /\ pc # "exec"
            /\ \A i \in DOMAIN asynctasks : asynctasks[i].st = "new"
            /\ \A p \in available_pumps : PumpPin(iobus, p) = 0)
    /\ [][Len(asynctasks') > Len(asynctasks) => iobus' = iobus]_vars
    /\ [](DiluteExecuteNext =>
            /\ Len(m.volumes) = Len(cultures)
            /\ asynctasks = Decided(m.volumes, 1)
            /\ \A p \in available_pumps : PumpPin(iobus, p) = 0)
    /\ []((m.op = "cycle" /\ Len(m.volumes) = Len(cultures) /\ pc # "aborted"
           /\ ~Diluting /\ ~DiluteExecuteNext /\ ~DiluteExecuting) =>
            /\ \A i \in DOMAIN asynctasks : asynctasks[i].pump \notin MediaPumps
            /\ \A p \in MediaPumps : PumpPin(iobus, p) = 0)

\* all three cultures of a cycle were above the target: the one execute_pumping of
\* the Dilute phase runs the three injections
C13_Witness ==
    /\ m.op = "cycle"
    /\ DiluteExecuting
    /\ pc = "exec"
    /\ Len(asynctasks) = 3
    /\ \A p \in MediaPumps : PumpPin(iobus, p) = 1

\* the culture-to-phage-vial pumps, in the order feed_phages goes through them
FeedRoutes == SelectSeq(morbidostat_pumps, LAMBDA pump : pump.input[1] = "culture")

\* the activations of feed_phages when the volume of culture k gives share(k) to each
\* of its phage vials; a share of 0 gives none
RECURSIVE FeedTasks(_, _)
FeedTasks(share, r) ==
    IF r > Len(FeedRoutes) THEN <<>>
    ELSE LET pump == FeedRoutes[r].number
             dt == share[FeedRoutes[r].input[2]] \div PumpRate(pump)
         IN (IF dt > 0 THEN <<NewTask(pump, dt)>> ELSE <<>>) \o FeedTasks(share, r + 1)

\* feed_phages is about to call its execute_pumping
FeedExecuteNext ==
    /\ m.op \in {"feed_phages", "cycle"}
    /\ pc = "idle"
    /\ m.todo # <<>> /\ Next_ins.ins = "execute_pumping"
    /\ Left("feed_phages") = {}

\* feed_phages has queued some of its injections
Feeding ==
    /\ m.op \in {"feed_phages", "cycle"}
    /\ Left("inject_bacteria") # {}

WasteOfCycle == Min(mL(10), SetMax(Range(m.volumes))) * 2

\* C17: in the RemoveWaste phase of cycle() the waste pump runs forward, synchronously,
\* for min(10, max(dilution volumes)) x safety_factor / wasteRate with safety_factor 2,
\* and at no other time of the cycle; when every dilution volume of the cycle is 0 the
\* waste pump is never switched on.
C17_CycleWasteRun ==
    /\ (m.op = "cycle" /\ call.op = "remove_waste" /\ pc \in WastePcs \cup {"ret"}) =>
          /\ call.dt = WasteOfCycle \div WasteRate
          /\ ~call.reversed
          /\ waste_pump_direction = 0
          /\ asynctasks = <<>>
          /\ \A p \in available_pumps : PumpPin(iobus, p) = 0
    /\ (m.op = "cycle" /\ waste_pump = 1) =>
          /\ call.op = "remove_waste"
          /\ pc \in {"waste_sleep", "waste_off"}
          /\ call.dt > 0
          /\ \E k \in DOMAIN m.volumes : m.volumes[k] > 0

\* the dilution volumes of the cycle were 1, 0 and 15 mL: the waste pump is on for the
\* time it takes to remove 20 mL
C17_Witness ==
    /\ m.op = "cycle"
    /\ pc = "waste_sleep"
    /\ waste_pump = 1
    /\ m.volumes = <<mL(1), 0, mL(15)>>
    /\ call.dt = mL(20) \div WasteRate

\* every dilution volume of the cycle was 0: remove_waste returns at once
C17_WitnessZero ==
    /\ m.op = "cycle"
    /\ call.op = "remove_waste"
    /\ pc = "ret"
    /\ m.volumes = <<0, 0, 0>>
    /\ waste_pump = 0

AllOff ==
    /\ \A n \in 1..NbIOPi : iobus[n] = [A |-> 0, B |-> 0]
    /\ lights = 0
    /\ waste_pump = 0
    /\ waste_pump_direction = 0

\* a step that runs turn_off: at the end of construction, called, or by the destructor
TurnOffStep ==
    \/ pc \in {"ctor_turn_off", "bench_ctor_turn_off"}
    \/ pc \in {"idle", "bench_idle", "aborted"} /\ call'.op \in {"turn_off", "__del__"}

\* C18: after turn_off (called at the end of Interface construction and by the
\* destructor), from any prior state, every pump pin, the light pin, the waste-pump
\* pin and the waste-pump direction flag are low, for the Interface of interface.py
\* and the one of test_bench.py; a second turn_off changes nothing.
C18_TurnOffForcesAllOff ==
    /\ [][TurnOffStep => AllOff']_vars
    /\ [][(TurnOffStep /\ call.op = "turn_off") =>
             <<iobus, lights, waste_pump, waste_pump_direction>>' =
                <<iobus, lights, waste_pump, waste_pump_direction>>]_vars

----------------------------------------------------------------------------
(* The data log.                                                            *)

\* the ranks of the rows of a savefile followed by those still in the dataframe
Ranks(file, frame) == [i \in 1..Len(file.rows \o frame) |-> (file.rows \o frame)[i].n]

Logged(file, frame, recorded) ==
    /\ Ranks(file, frame) = [i \in 1..recorded |-> i]
    /\ \A i \in 1..Len(file.rows \o frame) :
          (file.rows \o frame)[i].vials = cultures \o phage_vials
    /\ file.header = IF file.exists THEN 1 ELSE 0
    /\ file.rows # <<>> => file.exists

\* C20: whatever the order of record_ODs, record_volumes and save_data, the rows
\* of a savefile followed by the rows of its dataframe are the rows recorded so
\* far, each once and in recording order; every row has one value per vial,
\* cultures then phage vials; a savefile that exists has exactly one header line
\* and one that does not has none; and once save_data has returned both
\* dataframes are empty.
C20_RowsPersistedOnce ==
    /\ Logged(m.OD_savefile, m.ODs, m.recorded.ODs)
    /\ Logged(m.volumes_savefile, m.levels, m.recorded.levels)
    /\ (m.op = "save_data" /\ m.todo = <<>>) =>
          /\ m.ODs = <<>> /\ m.levels = <<>>
          /\ m.OD_savefile.exists /\ m.volumes_savefile.exists

\* two rows of ODs and one row of levels flushed, a third row of ODs recorded since
C20_Witness ==
    /\ Len(m.OD_savefile.rows) = 2
    /\ Len(m.ODs) = 1
    /\ Len(m.volumes_savefile.rows) = 1
    /\ m.levels = <<>>
    /\ m.todo = <<>>

----------------------------------------------------------------------------
(* The phases of a cycle.                                                   *)

\* the phase an instruction of a cycle belongs to
Phase(ins) ==
    CASE ins \in {"measure_OD", "measure_LS_capacitance", "append_ODs", "append_volumes"} -> "RecordState"
      [] ins = "maintain_culture" -> "Dilute"
      [] ins \in {"feed_phages", "inject_bacteria"} -> "FeedPhage"
      [] ins = "remove_waste_of_cycle" -> "RemoveWaste"
      [] ins = "wait_mixing" -> "WaitMix"
      [] ins = "execute_pumping" -> "Execute"
      [] OTHER -> "other"

\* where a list of instructions passes from one phase to another
PhaseStarts(todo) ==
    {i \in DOMAIN todo : i = 1 \/ Phase(todo[i].ins) # Phase(todo[i - 1].ins)}

\* the phases of a list of instructions, each run of one phase counted once
Phases(todo) ==
    LET starts == PhaseStarts(todo)
    IN  [k \in 1..Cardinality(starts) |->
            Phase(todo[CHOOSE i \in starts : Cardinality({j \in starts : j <= i}) = k].ins)]

\* the ten phases in order; the execute_pumping that ends Dilute and FeedPhage
\* is shown apart, and FeedPhage has one only once feed_phages was entered
CyclePhases(entered) ==
    <<"RecordState", "Dilute", "Execute", "WaitMix", "RecordState", "FeedPhage">>
    \o (IF entered THEN <<"Execute">> ELSE <<>>)
    \o <<"WaitMix", "RecordState", "RemoveWaste", "WaitMix", "RecordState">>

IsSuffix(s, t) == Len(s) <= Len(t) /\ s = SubSeq(t, Len(t) - Len(s) + 1, Len(t))

CountLeft(ins) == Cardinality({i \in DOMAIN m.todo : m.todo[i].ins = ins})

\* a WaitMix or a RecordState has begun, or the cycle has returned
Settling ==
    \/ pc = "idle" /\ m.todo = <<>>
    \/ pc = "idle" /\ m.todo # <<>> /\ Phase(Next_ins.ins) \in {"WaitMix", "RecordState"}
    \/ pc \in {"ls_reset", "ls_select", "ls_read"}

ActuatorsIdle ==
    /\ \A n \in 1..NbIOPi : iobus[n] = [A |-> 0, B |-> 0]
    /\ asynctasks = <<>>
    /\ waste_pump = 0

\* C14: what a cycle has still to do is always an end of the sequence
\* RecordState, Dilute, WaitMix, RecordState, FeedPhage, WaitMix, RecordState,
\* RemoveWaste, WaitMix, RecordState; whenever a WaitMix or a RecordState begins or
\* is under way, and when the cycle returns, every pump pin is low, nothing is
\* pending and the waste pump is off; and the rows recorded since the cycle was
\* entered plus those it has still to record are four of ODs and four of levels.
C14_CyclePhasesInOrder ==
    (m.op = "cycle" /\ pc # "aborted") =>
        /\ LET phases == Phases(m.todo)
           IN  \/ IsSuffix(phases, CyclePhases(FALSE))
               \/ IsSuffix(phases, CyclePhases(TRUE))
        /\ Settling => ActuatorsIdle
        /\ m.recorded.ODs - m.entry.ODs + CountLeft("append_ODs") = 4
        /\ m.recorded.levels - m.entry.levels + CountLeft("append_volumes") = 4

\* a cycle that diluted the third culture, fed its phage vials and removed waste
\* has returned with its four rows of each kind
C14_Witness ==
    /\ m.op = "cycle"
    /\ pc = "idle"
    /\ m.todo = <<>>
    /\ Len(m.volumes) = 3
    /\ m.volumes[3] > 0
    /\ m.recorded.ODs - m.entry.ODs = 4
    /\ m.recorded.levels - m.entry.levels = 4

----------------------------------------------------------------------------
(* Morbidostat.run.                                                         *)

\* the loop of run is at its test, called with this tot_time
AtLoopTest == m.op = "run" /\ Reached("while")
TotTime == Next_ins.y

\* run has returned: nothing is left to do
RunReturned == m.op = "run" /\ m.todo = <<>> /\ pc \in {"idle", "deleted"}

\* an operation of run has raised
RunFailed == m.op = "run" /\ pc = "aborted"

\* C15: a run in which no operation fails returns; the body of its loop is entered
\* only while the experiment time is below tot_time, and at an experiment time
\* of tot_time or more the test leaves the loop for switch_light(False); when run
\* has returned the light is off.
C15_RunLeavesItsLoop ==
    /\ [][AtLoopTest =>
            IF m.time < TotTime
            THEN m'.todo = body(Next_ins.x) \o m.todo
            ELSE m'.todo = <<Ins("switch_light", 0, 0, 0)>>]_vars
    /\ [](RunReturned => lights = 0)
    /\ (m.op = "run") ~> (RunReturned \/ RunFailed \/ pc = "deleted")

\* a run of two cycles has returned at tot_time with the light off
C15_Witness ==
    /\ RunReturned
    /\ pc = "idle"
    /\ m.ii = 2
    /\ m.time = MaxShortTime
    /\ lights = 0
    /\ m.recorded.ODs = 8

\* C19: when an operation of a cycle has failed and ended run, the light is off,
\* every pump pin is low, the waste pump is off and its direction is forward.
C19_FailedRunEndsAllOff == RunFailed => AllOff

----------------------------------------------------------------------------
(* The lookup of a pump.                                                    *)

\* how many entries of the table have this input and output
Matches(table, input, output) ==
    Cardinality({i \in DOMAIN table : table[i].input = input /\ table[i].output = output})

\* the routes maintain_culture and feed_phages ask for
LoopRoutes ==
    {<<<<"media", 1>>, <<"culture", k>>>> : k \in 1..Len(cultures)}
    \cup {<<<<"culture", ((v - 1) \div 3) + 1>>, <<"phage vial", v>>>> : v \in 1..Len(phage_vials)}

Looked == lookup.op = "get_pump_number"

\* C21: get_pump_number returns a pump number exactly when one entry of the table
\* has the input and the output asked for, and that entry's number; it fails when
\* none or several have; with the table set_pumps builds at construction, every
\* route of maintain_culture (media 1 to culture k) and of feed_phages (culture
\* ((v - 1) div 3) + 1 to phage vial v) gives a pump number, and no two routes
\* give the same.
C21_LookupResolvesOneMatch ==
    Looked =>
        /\ lookup.raised <=> Matches(lookup.pumps, lookup.input, lookup.output) # 1
        /\ ~lookup.raised =>
              \E i \in DOMAIN lookup.pumps :
                 /\ lookup.pumps[i].number = lookup.number
                 /\ lookup.pumps[i].input = lookup.input
                 /\ lookup.pumps[i].output = lookup.output
        /\ (lookup.pumps = morbidostat_pumps /\ <<lookup.input, lookup.output>> \in LoopRoutes) =>
              /\ ~lookup.raised
              /\ lookup.number \in available_pumps
              /\ \A r \in LoopRoutes \ {<<lookup.input, lookup.output>>} :
                    matching(morbidostat_pumps, r[1], r[2])[1].number # lookup.number

\* culture 3 to phage vial 8 gave pump 14
C21_Witness ==
    /\ Looked
    /\ lookup.pumps = morbidostat_pumps
    /\ lookup.input = <<"culture", 3>>
    /\ lookup.output = <<"phage vial", 8>>
    /\ lookup.number = 14

\* after a second set_pumps the same route has two entries and the lookup fails
C21_WitnessSeveral ==
    /\ Looked
    /\ Len(lookup.pumps) = 2 * Len(morbidostat_pumps)
    /\ lookup.input = <<"culture", 3>>
    /\ lookup.output = <<"phage vial", 8>>
    /\ lookup.raised

----------------------------------------------------------------------------
(* top_low_cultures.                                                        *)

\* top_low_cultures goes through one culture and returns to its loop
TopStep == m.op = "top_low_cultures" /\ Reached("top_culture")

\* the step has queued an injection on the media pump of its culture
TopQueues ==
    /\ Len(asynctasks') = Len(asynctasks) + 1
    /\ SubSeq(asynctasks', 1, Len(asynctasks)) = asynctasks
    /\ Last(asynctasks').pump = MediaPumpOf(Next_ins.x)

\* every OD of the culture in the rows from first on is strictly below the target
AllBelow(rows, first, culture) ==
    \A i \in DOMAIN rows : i >= first => rows[i].ODs[culture] < target_OD

\* only media pumps are pending or running, and the waste pump is off
OnlyMediaPumps ==
    /\ \A i \in DOMAIN asynctasks : asynctasks[i].pump \in MediaPumps
    /\ \A p \in available_pumps \ MediaPumps : PumpPin(iobus, p) = 0
    /\ waste_pump = 0
    /\ waste_pump_direction = 0

\* the loop is started once, when the cultures are done, and what it leaves is
\* an empty pending list and every pin low
OneExecute ==
    /\ [][(m.op = "top_low_cultures" /\ pc = "idle" /\ pc' = "exec") =>
            (Len(m.todo) = 1 /\ Next_ins.ins = "execute_pumping")]_vars
    /\ []((m.op = "top_low_cultures" /\ pc = "idle" /\ m.todo = <<>>) =>
            (asynctasks = <<>> /\ \A p \in available_pumps : PumpPin(iobus, p) = 0))

----------------------------------------------------------------------------
(* What maintain_culture returns.                                           *)

\* C23: the value maintain_culture returns, which maintain_cultures appends to its
\* list, is the volume of the injection the call has queued on the media pump of
\* its culture, and 0 when it has queued none.
C23_ReturnsVolumeQueued ==
    [][MaintainStep =>
        IF Len(asynctasks') = Len(asynctasks) + 1
        THEN /\ Last(asynctasks').pump = MediaPumpOf(Next_ins.x)
             /\ Last(m'.volumes) = Last(asynctasks').dt * PumpRate(MediaPumpOf(Next_ins.x))
        ELSE /\ asynctasks' = asynctasks
             /\ Last(m'.volumes) = 0]_vars

----------------------------------------------------------------------------
(* ADCPi claims.                                                            *)

\* a read_raw (or the read_raw of a read_voltage) has chosen its chip and its
\* configuration byte
Reading == adc.op \in {"read_raw", "read_voltage"} /\ adc.at \in {"poll", "returned"}

GainBits == (1 :> 0) @@ (2 :> 1) @@ (4 :> 2) @@ (8 :> 3)
ResolutionBits == (12 :> 0) @@ (14 :> 1) @@ (16 :> 2) @@ (18 :> 3)

\* bits first..last of a byte
Bits(byte, first, last) == (byte \div Pow2(first)) % Pow2(last - first + 1)

\* C24: whatever calls came before, read_raw(c) reads from the first chip for c in
\* 1..4 and from the second chip for c in 5..8, with a configuration byte whose
\* bits 5-6 are (c - 1) mod 4, whose bits 0-1 are those of the gain last set, whose
\* bits 2-3 are those of the resolution last set and whose bit 4 is the conversion
\* mode last set.
C24_ReadRawAddressesChannel ==
    Reading =>
        /\ adc.address = IF adc.arg <= 4 THEN adc.adc1_address ELSE adc.adc2_address
        /\ Bits(adc.config, 5, 6) = (adc.arg - 1) % 4
        /\ Bits(adc.config, 0, 1) = GainBits[adc.pga]
        /\ Bits(adc.config, 2, 3) = ResolutionBits[adc.bitrate]
        /\ Bits(adc.config, 4, 4) = adc.conversionmode

\* the same for the channels of the first chip only
C24_FirstChip ==
    (Reading /\ adc.arg <= 4) =>
        /\ adc.address = adc.adc1_address
        /\ Bits(adc.config, 5, 6) = (adc.arg - 1) % 4
        /\ Bits(adc.config, 0, 1) = GainBits[adc.pga]
        /\ Bits(adc.config, 2, 3) = ResolutionBits[adc.bitrate]
        /\ Bits(adc.config, 4, 4) = adc.conversionmode

\* and all of it but the channel for the second chip
C24_SecondChipButChannel ==
    (Reading /\ adc.arg >= 5) =>
        /\ adc.address = adc.adc2_address
        /\ Bits(adc.config, 0, 1) = GainBits[adc.pga]
        /\ Bits(adc.config, 2, 3) = ResolutionBits[adc.bitrate]
        /\ Bits(adc.config, 4, 4) = adc.conversionmode

\* the per-sample latency of each resolution, in units of 10 microseconds
LatencyTable == (12 :> 416) @@ (14 :> 1666) @@ (16 :> 6666) @@ (18 :> 26666)

\* the command byte of the response the read holds, and its ready flag (bit 7)
CommandByte == IF adc.bitrate = 18 THEN adc.adcreading[4] ELSE adc.adcreading[3]
NotReady(byte) == (byte \div 128) % 2 = 1

ReadReturned == adc.op \in {"read_raw", "read_voltage"} /\ adc.at = "returned"
ReadTimedOut ==
    /\ adc.op \in {"read_raw", "read_voltage"}
    /\ adc.at = "raised"
    /\ adc.error = "read_raw: channel conversion timed out"
Polling == adc.at = "poll"

\* C25: read_raw returns only on a response whose ready flag is clear; it raises the
\* timeout error only on a response that is not ready, read after the time of the
\* call + 100 x the latency of the resolution; a response that is not ready and was
\* read after that time always ends the polling with the timeout error; and polling
\* always ends.
C25_PollingEndsReadyOrTimedOut ==
    /\ [](ReadReturned => ~NotReady(CommandByte))
    /\ [](Polling => adc.timeout_time = adc.start + 100 * LatencyTable[adc.bitrate])
    /\ [](ReadTimedOut => /\ NotReady(CommandByte)
                           /\ adc.time > adc.start + 100 * LatencyTable[adc.bitrate])
    /\ [][(Polling /\ adc' # adc) =>
            LET byte == IF adc.bitrate = 18 THEN adc'.adcreading[4] ELSE adc'.adcreading[3]
            IN  (NotReady(byte) /\ adc'.time > adc.start + 100 * LatencyTable[adc.bitrate])
                    => (adc'.at = "raised" /\ adc'.arg = adc.arg
                        /\ adc'.error = "read_raw: channel conversion timed out")]_vars
    /\ (Polling ~> ~Polling)

\* a read has timed out after turns of the loop that slept
C25_Witness == ReadTimedOut /\ adc.polls >= 1

\* the sample of r bits held by the data bytes of the response: the low bits of
\* the first byte, then the second byte, and at 18 bits the third one
Sample ==
    LET high == adc.adcreading[1]
        mid == adc.adcreading[2]
        low == adc.adcreading[3]
    IN  CASE adc.bitrate = 18 -> (high % 4) * 65536 + mid * 256 + low
          [] adc.bitrate = 16 -> high * 256 + mid
          [] adc.bitrate = 14 -> (high % 64) * 256 + mid
          [] adc.bitrate = 12 -> (high % 16) * 256 + mid

\* C26: at every resolution r and for every response, read_raw reports the sign
\* flag equal to bit r-1 of the r-bit sample of the response and returns the sample
\* without that bit, a value in 0 .. 2^(r-1) - 1.
C26_SampleDecoded ==
    ReadReturned =>
        /\ adc.signbit = ((Sample \div Pow2(adc.bitrate - 1)) % 2 = 1)
        /\ adc.raw = Sample % Pow2(adc.bitrate - 1)
        /\ adc.raw \in 0..(Pow2(adc.bitrate - 1) - 1)

\* a sample of 12 bits whose sign bit is set, in a response whose first byte has
\* bits above the four that count
C26_Witness ==
    /\ ReadReturned
    /\ adc.bitrate = 12
    /\ adc.adcreading[1] >= 16
    /\ adc.signbit
    /\ adc.raw > 0

\* the lsb of each resolution in units of 1/128 microvolt (0.0005, 0.000125,
\* 0.00003125 and 0.0000078125 volt) and the factor of each gain, in halves
LsbTable == (12 :> 64000) @@ (14 :> 16000) @@ (16 :> 4000) @@ (18 :> 1000)
GainFactor == (1 :> 1) @@ (2 :> 2) @@ (4 :> 4) @@ (8 :> 8)

VoltageReturned == adc.op = "read_voltage" /\ adc.at = "returned"

\* C27: read_voltage returns 0 when the sample its own read_raw decoded has the sign
\* bit set, and raw x (lsb / gain factor) x 2.471 otherwise (here in units of
\* 2.471 / 1024 microvolt); the value is never negative, and the sign flag is the
\* one of the response read by this call.
C27_VoltageClampedAtZero ==
    VoltageReturned =>
        /\ adc.signbit = ((Sample \div Pow2(adc.bitrate - 1)) % 2 = 1)
        /\ adc.voltage = IF (Sample \div Pow2(adc.bitrate - 1)) % 2 = 1
                         THEN 0
                         ELSE ((Sample % Pow2(adc.bitrate - 1)) * LsbTable[adc.bitrate] * 8)
                                  \div adc.pga
        /\ adc.voltage >= 0

\* a read_voltage whose sample has the sign bit set and other bits too
C27_Witness == VoltageReturned /\ adc.signbit /\ adc.raw > 0 /\ adc.voltage = 0

\* a read_voltage whose sample has the sign bit clear, at a gain other than 1
C27_WitnessPositive == VoltageReturned /\ ~adc.signbit /\ adc.voltage > 0 /\ adc.pga = 4

\* a call of set_bit_rate or set_pga has just failed
SetFailed(a) == a.op \in {"set_bit_rate", "set_pga"} /\ a.at = "raised"

\* resolution, lsb, gain factor and the two configuration bytes
Settings(a) == <<a.bitrate, a.lsb, a.pga, a.adc1_conf, a.adc2_conf>>

\* C30: whatever calls were made, the resolution is one of 12, 14, 16, 18, the lsb
\* is the one of the resolution, the gain factor is one of 0.5, 1, 2, 4 (here in
\* halves) and the deadline of a read is 100 x the latency of the resolution; a
\* valid set_bit_rate or set_pga stores the row of its argument; a call with another
\* argument fails; and a call that fails leaves resolution, lsb, gain factor and
\* both configuration bytes as they were.
C30_SettingsAreTableRows ==
    /\ [](/\ adc.bitrate \in {12, 14, 16, 18}
          /\ adc.lsb = LsbTable[adc.bitrate]
          /\ adc.pga \in {1, 2, 4, 8}
          /\ Polling => adc.timeout_time - adc.start = 100 * LatencyTable[adc.bitrate]
          /\ (adc.op = "set_bit_rate" /\ adc.at = "returned") => adc.bitrate = adc.arg
          /\ (adc.op = "set_pga" /\ adc.at = "returned") => adc.pga = GainFactor[adc.arg]
          /\ (adc.op = "set_bit_rate" /\ adc.arg \notin {12, 14, 16, 18}) => adc.at = "raised"
          /\ (adc.op = "set_pga" /\ adc.arg \notin {1, 2, 4, 8}) => adc.at = "raised")
    /\ [][SetFailed(adc') => Settings(adc') = Settings(adc)]_vars

\* set_bit_rate has failed on an ADCPi whose resolution and gain are not those of
\* the class attributes
C30_Witness == SetFailed(adc) /\ adc.op = "set_bit_rate" /\ adc.bitrate = 16 /\ adc.pga = 4

----------------------------------------------------------------------------
(* IOPi claims.                                                             *)

\* bit b of port A and of port B are pin b + 1 and pin b + 9
PinOfBit == [port \in {"A", "B"}, b \in 0..7 |-> IF port = "A" THEN b + 1 ELSE b + 9]

\* the register pair after is the pair before with the bit of the pin made value
\* and every other bit of both registers as it was
OnlyPinChanged(before, after, pin, value) ==
    \A port \in {"A", "B"}, b \in 0..7 :
        Bits(after[port], b, b) = IF PinOfBit[port, b] = pin THEN value
                                  ELSE Bits(before[port], b, b)

Returned(io, op) == io.op = op /\ io.at = "returned"

\* C28: a write_pin(pin, v) that returns has changed bit pin-1 of port A (pins 1-8)
\* or bit pin-9 of port B (pins 9-16) to v and no other bit of the two ports, and it
\* leaves the direction registers alone; a read_pin returns the bit of its pin, so
\* that read_pin(pin) right after write_pin(pin, v) returns v; set_pin_direction
\* does to the direction registers what write_pin does to the ports.
C28_WritePinChangesOneBit ==
    /\ [][Returned(iopi', "write_pin") =>
            /\ OnlyPinChanged(iopi.gpio, iopi'.gpio, iopi'.pin, iopi'.value)
            /\ iopi'.gpio.A \in 0..255 /\ iopi'.gpio.B \in 0..255
            /\ iopi'.iodir = iopi.iodir]_vars
    /\ [][Returned(iopi', "set_pin_direction") =>
            /\ OnlyPinChanged(iopi.iodir, iopi'.iodir, iopi'.pin, iopi'.value)
            /\ iopi'.iodir.A \in 0..255 /\ iopi'.iodir.B \in 0..255
            /\ iopi'.gpio = iopi.gpio]_vars
    /\ [][Returned(iopi', "read_pin") =>
            /\ \E port \in {"A", "B"}, b \in 0..7 :
                  PinOfBit[port, b] = iopi'.pin /\ iopi'.result = Bits(iopi.gpio[port], b, b)
            /\ (Returned(iopi, "write_pin") /\ iopi.pin = iopi'.pin) => iopi'.result = iopi.value
            /\ iopi'.gpio = iopi.gpio /\ iopi'.iodir = iopi.iodir]_vars

\* write_pin(9, 1) has set bit 0 of a port B that held 0x5A, beside a port A that
\* holds 0xA5
C28_Witness ==
    /\ Returned(iopi, "write_pin")
    /\ iopi.pin = 9 /\ iopi.value = 1
    /\ iopi.gpio = [A |-> 165, B |-> 91]

\* read_pin(16) has returned 0 on a port B whose other bits are set
C28_WitnessRead ==
    /\ Returned(iopi, "read_pin")
    /\ iopi.pin = 16 /\ iopi.result = 0
    /\ iopi.gpio.B = 127

\* C29: the constructor called with an address outside 0x20..0x27, and
\* set_pin_direction, write_pin and read_pin called with a pin outside 1..16 or (the
\* first two) with a value outside {0, 1}, raise; a call that raises has written no
\* register, and both ports and both direction registers hold what they held
\* before the call.
C29_IllegalArgumentWritesNothing ==
    /\ []((iopi.op = "__init__" /\ iopi.address \notin 32..39) => iopi.at = "raised")
    /\ []((iopi.op \in {"set_pin_direction", "write_pin", "read_pin"} /\ iopi.pin \notin 1..16)
              => iopi.at = "raised")
    /\ []((iopi.op \in {"set_pin_direction", "write_pin"} /\ iopi.value \notin {0, 1})
              => iopi.at = "raised")
    /\ [](iopi.at = "raised" => iopi.written = <<>>)
    /\ [][iopi'.at = "raised" =>
            /\ iopi'.gpio = iopi.gpio
            /\ iopi'.iodir = iopi.iodir
            /\ iopi'.constructed = iopi.constructed]_vars

\* write_pin(16, 2) has raised on a port B whose bit 7 is clear
C29_Witness ==
    /\ iopi.op = "write_pin" /\ iopi.at = "raised"
    /\ iopi.pin = 16 /\ iopi.value = 2
    /\ iopi.gpio.B = 90

\* the constructor has raised on the address 0x28
C29_WitnessAddress == iopi.op = "__init__" /\ iopi.at = "raised" /\ iopi.address = 40

----------------------------------------------------------------------------
(* The address tables.                                                      *)

\* a level sensor is being read: its channel was selected by LsSelect
ReadingLS == pc = "ls_read"

\* C31 as stated: the level sensor that is read sits on multiplexer 1 or 2 and on
\* one of the channels 1..7, and each multiplexer has a channel that no vial uses.
C31_ChannelsOneToSeven ==
    /\ ReadingLS => (call.mux \in {1, 2} /\ call.channel \in 1..7)
    /\ \A mux \in {1, 2} : \E channel \in 1..8 : \A v \in vials : LS_to_mux(v) # <<mux, channel>>

\* C31 as the code has it: the level sensor that is read sits on multiplexer 1 or 2
\* and on one of the channels 1..8, it is the only channel selected, and it is never
\* channel 8 of multiplexer 2; the fifteen vials use every other channel, all eight
\* of multiplexer 1 among them.
C31_AllButLastChannelOfSecondMux ==
    /\ ReadingLS =>
          /\ call.mux \in {1, 2}
          /\ call.channel \in 1..8
          /\ <<call.mux, call.channel>> # <<2, 8>>
          /\ <<call.mux, call.channel>> = LS_to_mux(call.vial)
          /\ Selected(muxsel) = {<<call.mux, call.channel>>}
    /\ {LS_to_mux(v) : v \in vials} = ({1, 2} \X (1..8)) \ {<<2, 8>>}

\* the level sensor of vial 8 is read on channel 8 of multiplexer 1
C31_Witness == ReadingLS /\ call.vial = 8 /\ call.mux = 1 /\ call.channel = 8

\* the pins of the expanders that are high
HighPins == {a \in (1..NbIOPi) \X (1..16) : get_pin(iobus[a[1]], a[2]) = 1}

\* the pump numbers of the Morbidostat's table of pumps
RoutingPumps == {morbidostat_pumps[i].number : i \in DOMAIN morbidostat_pumps}

\* C32: every vial 1..15 has one OD address (ADCPi 1..2, pin 1..8) and one level
\* sensor address, no two vials share either; every pump 1..15, the pumps of the
\* Morbidostat's table among them, has its own (expander, pin 1..16); while the
\* Morbidostat operates its table of pumps is the one of the constructor, the pins
\* that are high are those of the pumps in their timed wait, and a level sensor
\* that is read is the one of the vial.
C32_AddressesDistinctAndInRange ==
    /\ DOMAIN ODs = vials /\ DOMAIN LS = vials
    /\ \A v \in vials : /\ OD_to_pin(v) \in (1..2) \X (1..8)
                        /\ LS_to_mux(v) \in muxs \X (1..8)
    /\ \A v, w \in vials : v # w => /\ OD_to_pin(v) # OD_to_pin(w)
                                    /\ LS_to_mux(v) # LS_to_mux(w)
    /\ available_pumps = 1..15
    /\ RoutingPumps \subseteq available_pumps
    /\ \A p \in available_pumps : pump_to_pin(p) \in (1..NbIOPi) \X (1..16)
    /\ \A p, q \in available_pumps : p # q => pump_to_pin(p) # pump_to_pin(q)
    /\ lookup.pumps = morbidostat_pumps
    /\ pc = "exec" => HighPins = {pump_to_pin(asynctasks[i].pump) : i \in Sleeping}
    /\ ReadingLS => Selected(muxsel) = {LS_to_mux(call.vial)}

\* two pumps of the Morbidostat's table run at once, each on its own pin
C32_Witness ==
    /\ pc = "exec"
    /\ m.op # "none"
    /\ \E i, j \in Sleeping :
          /\ asynctasks[i].pump # asynctasks[j].pump
          /\ {asynctasks[i].pump, asynctasks[j].pump} \subseteq RoutingPumps
          /\ Cardinality(HighPins) = Cardinality(Sleeping)

----------------------------------------------------------------------------
(* Interface._read_capacitance on its own, on any three bytes the sensor    *)
(* may answer.  A capacitance is an integer number of 1 / CapUnit pF, the   *)
(* common denominator of 1.625 / 8 and 4 / 40944, so that no term is        *)
(* rounded.                                                                 *)

CapUnit == 163776

\* a capacitance whose capdac term takes the byte as it is
read_capacitance_no_offset(data1, data2, data3) ==
    (((data3 * CapUnit) \div 8) * 13) \div 8
        + (((data1 * 256 + data2) - 12288) * (CapUnit \div 40944)) * 4

\* ((data3 - 192) / 8) * 1.625 + (((data1 * 256 + data2) - 12288) / 40944) * 4
read_capacitance(data1, data2, data3) ==
    ((((data3 - 192) * CapUnit) \div 8) * 13) \div 8
        + (((data1 * 256 + data2) - 12288) * (CapUnit \div 40944)) * 4

\* the registers _read_capacitance reads: the averaged data or the real-time data,
\* then the capdac
registers(averaged) == IF averaged THEN <<5, 6, 17>> ELSE <<1, 2, 17>>

HighBytes == {0, 47, 48, 49, 255}
LowBytes == {0, 1, 255}
CapdacBytes == {0, 191, 192, 200, 255}

InitCap ==
    /\ AtRest
    /\ lookup = NoLookup
    /\ adc = NoADC
    /\ iopi = NoIOPi

\* _read_capacitance(averaged), the sensor answering data1, data2 and data3
ReadCapacitance ==
    /\ pc = "idle"
    /\ \E averaged \in BOOLEAN, data1 \in HighBytes, data2 \in LowBytes, data3 \in CapdacBytes :
          call' = [NoCall EXCEPT !.op = "_read_capacitance",
                                 !.averaged = averaged,
                                 !.reg = registers(averaged),
                                 !.data = <<data1, data2, data3>>,
                                 !.capacitance = read_capacitance(data1, data2, data3)]
    /\ UNCHANGED <<pc, muxsel, ad7150, iobus, lights, waste_pump, waste_pump_direction,
                   asynctasks, clock, m, libvars>>

NextCap == ReadCapacitance

SpecCap == InitCap /\ [][NextCap]_vars

----------------------------------------------------------------------------
(* The capacitance of a reading.                                            *)

\* _read_capacitance has returned
CapacitanceRead == call.op = "_read_capacitance"

\* one step of the capdac is 1.625 / 8 pF, one count of the data 4 / 40944 pF
UnitsPerStep == (13 * CapUnit) \div 64
UnitsPerCount == (4 * CapUnit) \div 40944

\* C33: for every byte triple (d1, d2, d3) read from the sensor, through the
\* averaged or the real-time registers, _read_capacitance returns
\* ((d3 - 192) / 8) x 1.625 + (((d1 x 256 + d2) - 12288) / 40944) x 4, and
\* (48, 0, 192) gives 0.
C33_CapacitanceFormula ==
    CapacitanceRead =>
        /\ 64 * UnitsPerStep = 13 * CapUnit
        /\ 10236 * UnitsPerCount = CapUnit
        /\ call.capacitance = (call.data[3] - 192) * UnitsPerStep
                                + ((call.data[1] * 256 + call.data[2]) - 12288) * UnitsPerCount
        /\ (call.data = <<48, 0, 192>> => call.capacitance = 0)
        /\ call.reg \in {<<5, 6, 17>>, <<1, 2, 17>>}

\* the sensor has answered (48, 0, 192)
C33_Witness == CapacitanceRead /\ call.data = <<48, 0, 192>> /\ call.averaged

\* the sensor has answered another triple, on the real-time registers
C33_WitnessOther ==
    CapacitanceRead /\ call.data = <<255, 255, 0>> /\ ~call.averaged /\ call.capacitance # 0

----------------------------------------------------------------------------
(* The waste pump and the batches of the scheduler.                         *)

\* the waste pump runs, or its direction is reversed
WasteActive == waste_pump = 1 \/ waste_pump_direction = 1

\* C34: in every state the Morbidostat operations reach, while the waste pump's pin
\* is high or its direction is reversed no pump pin is high and no activation is
\* in its timed wait; and while execute_pumping runs the waste pump is off and its
\* direction is forward.
C34_WasteAndBatchesApart ==
    /\ WasteActive =>
          /\ pc # "exec"
          /\ \A p \in available_pumps : PumpPin(iobus, p) = 0
          /\ Sleeping = {}
    /\ pc = "exec" => ~WasteActive

\* the waste pump of a cycle runs, after the two batches of the cycle have run
C34_Witness ==
    /\ waste_pump = 1
    /\ pc = "waste_sleep"
    /\ m.op = "cycle"
    /\ \E i \in 1..3 : m.volumes[i] > 0

----------------------------------------------------------------------------
(* Two activations of one pump.                                             *)

\* C35: each activation keeps its pump's pin high for its full duration, even when
\* another activation of the same pump is pending: while an activation is in its
\* timed wait the pin of its pump is high, so with durations d1 < d2 on one pump
\* the pin is not driven low at d1.
C35_PinHighForFullDuration ==
    pc = "exec" => \A i \in Sleeping \ Due : PumpPin(iobus, asynctasks[i].pump) = 1

----------------------------------------------------------------------------
(* A batch with a failing activation.                                       *)

\* C36: when execute_pumping exits, with its result or with the error of an
\* activation that failed, every pump pin is low and the pending set is empty.
C36_ExitLeavesNothingRunning ==
    [][(pc = "exec" /\ pc' # "exec") =>
          /\ \A p \in available_pumps : PumpPin(iobus', p) = 0
          /\ asynctasks' = <<>>]_vars

----------------------------------------------------------------------------
(* A record that fails part-way.                                            *)

RecordOps == {"record_ODs", "record_volumes"}

\* a row with one value for each culture and each phage vial
FullRow(r) == r.vials = cultures \o phage_vials

\* C37: while record_ODs or record_volumes measures, and so wherever a measurement
\* of it fails, no row was appended to a buffer: the buffers hold the rows they
\* held when the method was entered, every row of a buffer is a full record, and
\* no step but the append at the end of the method and save_data changes a buffer.
C37_NoPartialRecord ==
    /\ [](\A i \in DOMAIN m.ODs : FullRow(m.ODs[i]))
    /\ [](\A i \in DOMAIN m.levels : FullRow(m.levels[i]))
    /\ []((m.op \in RecordOps /\ m.todo # <<>>) => m.recorded = m.entry)
    /\ [][(m.ODs' # m.ODs \/ m.levels' # m.levels) =>
            /\ pc = "idle" /\ pc' = "idle"
            /\ \/ /\ Next_ins.ins = "append_ODs"
                  /\ m.ODs' = Append(m.ODs, Row(m.recorded.ODs + 1, cultures \o phage_vials))
                  /\ m.levels' = m.levels
               \/ /\ Next_ins.ins = "append_volumes"
                  /\ m.levels' = Append(m.levels, Row(m.recorded.levels + 1, cultures \o phage_vials))
                  /\ m.ODs' = m.ODs
               \/ Next_ins.ins = "save_data"]_vars

\* record_ODs has failed on a later vial with a row already in the buffer
C37_Witness ==
    /\ pc = "aborted"
    /\ call.op = "measure_OD"
    /\ m.op = "record_ODs"
    /\ Len(m.row) >= 2
    /\ m.ODs # <<>>

----------------------------------------------------------------------------
(* The light during run.                                                    *)

\* the next call of the method in progress measures an OD
MeasuresOD == m.todo # <<>> /\ Next_ins.ins \in {"measure_OD", "maintain_culture"}

\* run was called, and the Interface was not deleted since
InRun == m.op = "run" /\ pc # "deleted"

\* C38: during Morbidostat.run every OD measurement, of record_ODs and of
\* maintain_culture, is taken with the light pin high: run switches the light on
\* before its first cycle, and switches it off only as its last step, after the loop.
C38_MeasuresWithLightOn ==
    /\ []((InRun /\ MeasuresOD) => lights = 1)
    /\ []((InRun /\ lights = 0) =>
            \/ m.todo = <<>>
            \/ Next_ins = Ins("switch_light", 1, 0, 0) /\ m.ii = 0)
    /\ [][(InRun /\ InRun' /\ lights = 1 /\ lights' = 0) => m.todo' = <<>>]_vars

\* the OD of a culture is measured in the second cycle of a run
C38_Witness ==
    /\ m.op = "run"
    /\ m.ii >= 1
    /\ Reached("maintain_culture")
    /\ lights = 1

\* run has ended and switched the light off
C38_WitnessEnd == InRun /\ m.ii >= 1 /\ m.todo = <<>> /\ lights = 0

----------------------------------------------------------------------------
(* What a cycle draws out of a culture and what it injects into it.         *)

\* the volume the pending activations of the pumps P stand for
QueuedVolume(P) ==
    LET sum[i \in 0..Len(asynctasks)] ==
            IF i = 0 THEN 0
            ELSE sum[i - 1] + (IF asynctasks[i].pump \in P
                               THEN asynctasks[i].dt * PumpRate(asynctasks[i].pump)
                               ELSE 0)
    IN sum[Len(asynctasks)]

\* the pumps that draw from culture k into its phage vials
PhagePumpsOf(k) ==
    {morbidostat_pumps[i].number :
        i \in {j \in DOMAIN morbidostat_pumps : morbidostat_pumps[j].input = <<"culture", k>>}}

\* a batch of a cycle, or of feed_phages called with a vector of volumes, is
\* queued and about to run
BatchQueued ==
    /\ m.op \in {"cycle", "feed_phages"}
    /\ Reached("execute_pumping")
    /\ Len(m.volumes) = Len(cultures)

\* C39: in one cycle, for every culture and every vector of dilution volumes, the
\* volume queued on the culture's three phage-feed pumps, each
\* min(volume x 0.33 x safety_factor, 3 mL), is in total at most
\* min(volume, 10 mL), which is the volume the Dilute phase queues on the culture's
\* media pump whenever it queues any; and the same bound holds for every safety
\* factor of at most 1.
C39_DrawnAtMostInjected ==
    /\ BatchQueued =>
          \A k \in DOMAIN cultures :
              /\ QueuedVolume(PhagePumpsOf(k)) <= clamp_volume(m.volumes[k], mL(10))
              /\ QueuedVolume(PhagePumpsOf(k)) \in
                    {0, 3 * clamp_volume(phage_share(m.volumes[k], 7), mL(3))}
              /\ QueuedVolume({MediaPumpOf(k)}) \in {0, clamp_volume(m.volumes[k], mL(10))}
              /\ m.op = "cycle" =>
                    (QueuedVolume(PhagePumpsOf(k)) = 0 \/ QueuedVolume({MediaPumpOf(k)}) = 0)
    /\ \A volume \in {0, mL(1), mL(9), mL(10), mL(15)}, safety_factor \in 0..10 :
          3 * clamp_volume(phage_share(volume, safety_factor), mL(3))
              <= clamp_volume(volume, mL(10))

\* the feed batch of a cycle is queued: one culture was diluted by more than the
\* 10 mL an injection may be, another by 1 mL
C39_Witness ==
    /\ BatchQueued
    /\ m.op = "cycle"
    /\ m.volumes[1] = mL(15)
    /\ m.volumes[2] = mL(1)
    /\ QueuedVolume(PhagePumpsOf(1)) = mL(9)
    /\ QueuedVolume(PhagePumpsOf(2)) > 0

\* the dilution batch of a cycle is queued
C39_WitnessDilute ==
    /\ BatchQueued
    /\ m.op = "cycle"
    /\ QueuedVolume({MediaPumpOf(1)}) = mL(10)

====
